---- MODULE Spec2Model ----
(***************************************************************************)
(* Model of the AI Tweet Detector engine (class AIDetector of content.js): *)
(* the pattern store and its lazy asynchronous load, the duplicate tracker *)
(* (recentTweets), the feature extractor, the scorer and the running       *)
(* statistics.                                                             *)
(*                                                                         *)
(* Representation.                                                         *)
(*   - JavaScript strings are TLA+ strings; the character at position i of *)
(*     s is SubSeq(s, i, i).  Characters outside ASCII are written with    *)
(*     ASCII stand-ins:                                                    *)
(*        "~"  U+1F600, an emoji outside the BMP (two UTF-16 code units)   *)
(*        "{"  U+00E2, "|"  U+20AC, "}"  U+201D: the three characters the   *)
(*             source's em-dash pattern is made of                         *)
(*   - Numbers that are fractions in the source (scores, weights,          *)
(*     confidences, similarities) are integers in units of 1/Scale.        *)
(*   - undefined is the string Undefined, which is no user name.           *)
(***************************************************************************)
EXTENDS Integers, Sequences, FiniteSets, TLC

\* 1.0 in the fixed-point representation of fractions.
Scale == 1000000

\* The value of a metadata field that is not provided.
Undefined == "<undefined>"

\* The text argument null.
NullText == "<null>"

-----------------------------------------------------------------------------
(* Characters and the String methods the source uses.                      *)

UpperToLower ==
  [c \in {"A","B","C","D","E","F","G","H","I","J","K","L","M","N","O","P","Q",
          "R","S","T","U","V","W","X","Y","Z"} |->
     CASE c = "A" -> "a" [] c = "B" -> "b" [] c = "C" -> "c" [] c = "D" -> "d"
       [] c = "E" -> "e" [] c = "F" -> "f" [] c = "G" -> "g" [] c = "H" -> "h"
       [] c = "I" -> "i" [] c = "J" -> "j" [] c = "K" -> "k" [] c = "L" -> "l"
       [] c = "M" -> "m" [] c = "N" -> "n" [] c = "O" -> "o" [] c = "P" -> "p"
       [] c = "Q" -> "q" [] c = "R" -> "r" [] c = "S" -> "s" [] c = "T" -> "t"
       [] c = "U" -> "u" [] c = "V" -> "v" [] c = "W" -> "w" [] c = "X" -> "x"
       [] c = "Y" -> "y" [] c = "Z" -> "z"]

UpperChars == DOMAIN UpperToLower
LowerChars == {UpperToLower[c] : c \in UpperChars}
DigitChars == {"0","1","2","3","4","5","6","7","8","9"}
\* \w and \s of a JavaScript regular expression (without the u flag).
WordChars  == UpperChars \cup LowerChars \cup DigitChars \cup {"_"}
SpaceChars == {" ", "\n", "\t"}
\* The emoji of the model's alphabet: U+1F600 lies in every emoji range the source tests.
EmojiChars == {"~"}
\* Characters that take two UTF-16 code units.
AstralChars == {"~"}

At(s, i) == SubSeq(s, i, i)

Range(seq) == {seq[i] : i \in DOMAIN seq}
Min(a, b) == IF a < b THEN a ELSE b
Max(a, b) == IF a > b THEN a ELSE b
SetMin(S) == CHOOSE m \in S : \A x \in S : m <= x
SetMax(S) == CHOOSE m \in S : \A x \in S : x <= m
Sum(ns) ==
  LET S[i \in 0..Len(ns)] == IF i = 0 THEN 0 ELSE S[i - 1] + ns[i]
  IN S[Len(ns)]

\* The characters of s, one by one, and the string made of a sequence of characters.
Chars(s) == [i \in 1..Len(s) |-> At(s, i)]
Str(cs) ==
  LET J[lo \in 1..(Len(cs) + 1), hi \in 0..Len(cs)] ==
        IF lo > hi THEN ""
        ELSE IF lo = hi THEN cs[lo]
        ELSE J[lo, (lo + hi) \div 2] \o J[((lo + hi) \div 2) + 1, hi]
  IN J[1, Len(cs)]

\* The members of the set S of indices in 1..n, in increasing order.
Ascending(n, S) == LET In(i) == i \in S IN SelectSeq([i \in 1..n |-> i], In)

\* String.prototype.length: UTF-16 code units.
length(s) == Len(s) + Cardinality({i \in 1..Len(s) : At(s, i) \in AstralChars})

toLowerCase(s) ==
  Str([i \in 1..Len(s) |-> IF At(s, i) \in UpperChars THEN UpperToLower[At(s, i)] ELSE At(s, i)])

\* s.replace(/[...]/g, ''): drop every character of the class.
RemoveChars(s, class) ==
  LET Stays(c) == c \notin class IN Str(SelectSeq(Chars(s), Stays))

\* s.replace(/[^...]/g, ''): keep only the characters of the class.
KeepChars(s, class) ==
  LET Stays(c) == c \in class IN Str(SelectSeq(Chars(s), Stays))

\* s.replace(/\s+/g, ' '): of every run of white space, its first character stays,
\* as a space.
CollapseSpaces(s) ==
  LET kept == Ascending(Len(s), {i \in 1..Len(s) :
                  ~(At(s, i) \in SpaceChars /\ i > 1 /\ At(s, i - 1) \in SpaceChars)})
  IN Str([k \in 1..Len(kept) |->
            IF At(s, kept[k]) \in SpaceChars THEN " " ELSE At(s, kept[k])])

\* String.prototype.trim
trim(s) ==
  LET black == {i \in 1..Len(s) : At(s, i) \notin SpaceChars}
  IN IF black = {} THEN "" ELSE SubSeq(s, SetMin(black), SetMax(black))

\* String.prototype.includes
includes(s, sub) ==
  \E i \in 1..(Len(s) - Len(sub) + 1) : SubSeq(s, i, i + Len(sub) - 1) = sub

\* String.prototype.startsWith
startsWith(s, pre) == Len(pre) <= Len(s) /\ SubSeq(s, 1, Len(pre)) = pre

\* s.split(' '): the pieces between single spaces; "" splits into <<"">>.
split(s) ==
  LET sp == Ascending(Len(s), {i \in 1..Len(s) : At(s, i) = " "})
  IN [k \in 1..(Len(sp) + 1) |->
        SubSeq(s, IF k = 1 THEN 1 ELSE sp[k - 1] + 1,
                  IF k = Len(sp) + 1 THEN Len(s) ELSE sp[k] - 1)]

\* The maximal runs of characters of s whose index is not in seps, left to right.
Runs(s, seps) ==
  LET firsts == Ascending(Len(s), {i \in 1..Len(s) : i \notin seps /\ (i = 1 \/ i - 1 \in seps)})
      lasts == Ascending(Len(s), {i \in 1..Len(s) :
                                    i \notin seps /\ (i = Len(s) \/ i + 1 \in seps)})
  IN [k \in 1..Len(firsts) |-> SubSeq(s, firsts[k], lasts[k])]

\* s.split(/\s+/).filter(w => w.length > 0): the maximal runs of non-space characters.
SplitWords(s) == Runs(s, {i \in 1..Len(s) : At(s, i) \in SpaceChars})

\* s.split(/[class]+/).filter(p => p.trim().length > 0)
SplitRuns(s, class) ==
  LET NotBlank(piece) == trim(piece) # ""
  IN SelectSeq(Runs(s, {i \in 1..Len(s) : At(s, i) \in class}), NotBlank)

\* Number of occurrences of characters of class in s: (s.match(/[class]/g) || []).length
CountChars(s, class) == Cardinality({i \in 1..Len(s) : At(s, i) \in class})

\* Number of entries of a list of Booleans that are true.
CountTrue(flags) == Cardinality({i \in DOMAIN flags : flags[i]})

-----------------------------------------------------------------------------
(* The inputs of the model: the posts and the user names the callers pass. *)

\* Bounds of the model.
MaxCalls == 3      \* analyze calls made on the detector
MaxPending == 2    \* analyze calls suspended on a load at a time
WarmUp   == 499    \* distinct posts that fill the tracker, one author
MaxFill  == 501    \* analyze calls made while filling the tracker
MaxKnobs == 2      \* features in which a feature vector differs from a corner
MaxEdgeCalls == 2  \* analyze calls made with texts at the edges of the input space
MaxPageCalls == 4  \* tweet elements the content script hands to analyze
MaxMessages == 4   \* AI_DETECTED messages the worker receives
Previous == 98     \* detections the worker has stored before them

T_News   == "This is absolutely incredible news today"
T_Robust == "Update: a robust plan: it works today"
T_Bangs  == "!!!"
Texts == {T_News, T_Robust}

\* Texts at the edges of the input space: empty, blank, emoji only, no letters, one
\* short word, a post that quotes a configured phrase and a short link, a post of 20
\* words with three indicator words, and a post of 8 words with three posts that
\* share its first 4 or 5 words: one of 4 words, one of 5 and one of 9.
T_Empty  == ""
T_Blank  == "   "
T_Emoji  == "~~"
T_Digits == "123 456"
T_Nice   == "Nice!"
T_AsAnAI == "as an AI I like http://bit.ly/x"
T_Vocabulary ==
  "We delve into the tapestry of a multifaceted story about my old town and its people on this sunny day"
T_Dogs8  == "big red dogs run fast over green hills"
T_Dogs4  == "big red dogs run"
T_Dogs5  == "big red dogs run home"
T_Dogs9  == "big red dogs run fast on blue roads today"
EdgeTexts ==
  {T_Empty, T_Blank, T_Emoji, T_Digits, T_Nice, T_AsAnAI, T_Vocabulary,
   T_Dogs8, T_Dogs4, T_Dogs5, T_Dogs9}

\* The n-th post of a series of posts with pairwise distinct normalized texts.
Numeral(n) == Str(<<At("0123456789", ((n \div 100) % 10) + 1),
                    At("0123456789", ((n \div 10) % 10) + 1),
                    At("0123456789", (n % 10) + 1)>>)
Post(n) == "Post #" \o Numeral(n)

KnownTexts == Texts \cup EdgeTexts \cup {T_Bangs} \cup {Post(n) : n \in 0..MaxFill}

\* The user name whose normalization is "grok".
Grok == "@Grok "
\* A user name that is nothing but the @ sign, and one that is a part of a handle.
AtSign == "@"
Fragment == "bar"
KnownNames == {"alice", "bob", Grok, AtSign, Fragment}
\* The display names of the model's tweets.
KnownDisplayNames == {"Alice", "Bob ~"}

-----------------------------------------------------------------------------
(* Duplicate tracker: recentTweets is a Map in insertion order, modelled    *)
(* as a sequence of entries [key, author] with pairwise distinct keys.     *)

maxCacheSize == 500
EvictBatch == 100

normalizeText(text) ==
  trim(KeepChars(CollapseSpaces(toLowerCase(text)), WordChars \cup SpaceChars))

\* normalizeText of the model's posts, computed once.
NormalizedOf == [t \in KnownTexts |-> normalizeText(t)]
Normalized(text) == NormalizedOf[text]

\* intersection.size / union.size of the two word sets, in units of 1/Scale.
calculateSimilarity(text1, text2) ==
  LET set1 == Range(split(text1))
      set2 == Range(split(text2))
  IN (Cardinality(set1 \cap set2) * Scale) \div Cardinality(set1 \cup set2)

\* checkStructuralSimilarity without the test that the lengths are within 3 words.
checkStructuralSimilarity_AnyLength(text1, text2) ==
  LET words1 == split(text1)
      words2 == split(text2)
      matching == Cardinality({i \in DOMAIN words1 : words1[i] \in Range(words2)})
      matchingSequences ==
        Cardinality({i \in 1..(Len(words1) - 1) :
                       includes(text2, words1[i] \o " " \o words1[i + 1])})
  IN IF Len(words1) <= 8 /\ Len(words2) <= 8 THEN matching >= 4
     ELSE 2 * matchingSequences >= Len(words1) - 1

checkStructuralSimilarity(text1, text2) ==
  LET words1 == split(text1)
      words2 == split(text2)
      diff == Len(words1) - Len(words2)
      matching == Cardinality({i \in DOMAIN words1 : words1[i] \in Range(words2)})
      matchingSequences ==
        Cardinality({i \in 1..(Len(words1) - 1) :
                       includes(text2, words1[i] \o " " \o words1[i + 1])})
  IN IF diff > 3 \/ diff < -3 THEN FALSE
     ELSE IF Len(words1) <= 8 /\ Len(words2) <= 8 THEN matching >= 4
     ELSE 2 * matchingSequences >= Len(words1) - 1

\* The duplicate check without the test on the stored author.
checkDuplicateContent_AnyAuthor(cache, text, username) ==
  LET normalized == Normalized(text)
  IN \E i \in DOMAIN cache :
       \/ cache[i].key = normalized
       \/ 5 * calculateSimilarity(normalized, cache[i].key) > 3 * Scale
       \/ checkStructuralSimilarity(normalized, cache[i].key)

checkDuplicateContent(cache, text, username) ==
  LET normalized == Normalized(text)
  IN \E i \in DOMAIN cache :
       /\ cache[i].author # username
       /\ \/ cache[i].key = normalized
          \/ 5 * calculateSimilarity(normalized, cache[i].key) > 3 * Scale
          \/ checkStructuralSimilarity(normalized, cache[i].key)

\* Map.prototype.set: a present key keeps its place and takes the new value.
MapSet(cache, key, value) ==
  IF \E i \in DOMAIN cache : cache[i].key = key
  THEN [i \in DOMAIN cache |->
          IF cache[i].key = key THEN [key |-> key, author |-> value] ELSE cache[i]]
  ELSE Append(cache, [key |-> key, author |-> value])

\* The eviction loop: the first EvictBatch keys of the iteration are visited and
\* each is deleted if it is truthy (the empty string is not).
EvictOldest(cache) ==
  LET Falsy(entry) == entry.key = ""
  IN SelectSeq(SubSeq(cache, 1, EvictBatch), Falsy)
       \o SubSeq(cache, EvictBatch + 1, Len(cache))

\* addToCache without its eviction loop.
addToCache_NoEviction(cache, text, username) == MapSet(cache, Normalized(text), username)

addToCache(cache, text, username) ==
  LET added == MapSet(cache, Normalized(text), username)
  IN IF Len(added) > maxCacheSize THEN EvictOldest(added) ELSE added

-----------------------------------------------------------------------------
(* Regular expressions.  A pattern of the source is written as its syntax  *)
(* tree, kept as a table of nodes in which a node names its children by    *)
(* their index (children come before their parent, the root is last).      *)
(* Ends gives the positions at which a match starting at i can end, so     *)
(* test() is the existence of a start with an end.  ci is the i flag.      *)

\* [...] and [^...], repeated lo to hi times (hi = -1: no limit)
Class(set, neg, lo, hi) == <<[k |-> "class", set |-> set, neg |-> neg, lo |-> lo, hi |-> hi]>>
Ch(set)        == Class(set, FALSE, 1, 1)
NotCh(set)     == Class(set, TRUE, 1, 1)
\* r{lo,hi}, r+ and r* for a character class r
Rep(r, lo, hi) == <<[r[1] EXCEPT !.lo = lo, !.hi = hi]>>
Plus(r)        == Rep(r, 1, -1)
Star(r)        == Rep(r, 0, -1)
Lit(str)       == <<[k |-> "lit", str |-> str]>>       \* literal text
Bol            == <<[k |-> "bol"]>>                    \* ^ without the m flag
BolM           == <<[k |-> "bolm"]>>                   \* ^ with the m flag
Eol            == <<[k |-> "eol"]>>                    \* $ without the m flag
Wb             == <<[k |-> "wb"]>>                     \* \b
Dot            == NotCh({"\n"})                        \* .
Invalid        == <<[k |-> "invalid"]>>                \* new RegExp throws
\* (r)?
Opt(r)         == Append(r, [k |-> "opt", kids |-> <<Len(r)>>])

\* Node n of a table that is placed after off other nodes.
Shift(node, off) ==
  IF node.k \in {"cat", "alt", "opt"}
  THEN [node EXCEPT !.kids = [j \in DOMAIN node.kids |-> node.kids[j] + off]]
  ELSE node

\* The tables rs one after the other, then a node of kind k over their roots.
Group(k, rs) ==
  LET End[n \in 0..Len(rs)] == IF n = 0 THEN 0 ELSE End[n - 1] + Len(rs[n])
      All[n \in 0..Len(rs)] ==
        IF n = 0 THEN <<>>
        ELSE All[n - 1] \o [j \in 1..Len(rs[n]) |-> Shift(rs[n][j], End[n - 1])]
  IN Append(All[Len(rs)], [k |-> k, kids |-> [n \in 1..Len(rs) |-> End[n]]])

Cat(rs) == Group("cat", rs)                            \* r1 r2 ...
Alt(rs) == Group("alt", rs)                            \* r1 | r2 | ...
AltLit(strs) == Alt([n \in 1..Len(strs) |-> Lit(strs[n])])

IsWordAt(s, i) == i >= 1 /\ i <= Len(s) /\ At(s, i) \in WordChars

FoldCase(c, ci) == IF ci /\ c \in UpperChars THEN UpperToLower[c] ELSE c

InClass(node, c, ci) ==
  (IF ci THEN \E x \in node.set : FoldCase(x, ci) = FoldCase(c, ci) ELSE c \in node.set)
    # node.neg

Ends(re, s, i0, ci) ==
  LET E[n \in 1..Len(re), i \in 1..(Len(s) + 1)] ==
        LET node == re[n]
        IN CASE node.k = "class" ->
                  LET stop == {j \in i..Len(s) : ~InClass(node, At(s, j), ci)}
                      run == (IF stop = {} THEN Len(s) + 1 ELSE SetMin(stop)) - i
                      most == IF node.hi = -1 THEN run ELSE Min(run, node.hi)
                  IN {i + m : m \in node.lo..most}
             [] node.k = "lit" ->
                  LET len == Len(node.str)
                  IN IF i + len - 1 <= Len(s)
                        /\ \A j \in 1..len :
                             FoldCase(At(node.str, j), ci) = FoldCase(At(s, i + j - 1), ci)
                     THEN {i + len} ELSE {}
             [] node.k = "cat" ->
                  LET G[m \in 0..Len(node.kids)] ==
                        IF m = 0 THEN {i}
                        ELSE UNION {E[node.kids[m], j] : j \in G[m - 1]}
                  IN G[Len(node.kids)]
             [] node.k = "alt" -> UNION {E[node.kids[m], i] : m \in DOMAIN node.kids}
             [] node.k = "opt" -> {i} \cup E[node.kids[1], i]
             [] node.k = "bol" -> IF i = 1 THEN {i} ELSE {}
             [] node.k = "bolm" -> IF i = 1 \/ At(s, i - 1) = "\n" THEN {i} ELSE {}
             [] node.k = "eol" -> IF i = Len(s) + 1 THEN {i} ELSE {}
             [] node.k = "wb" -> IF IsWordAt(s, i - 1) # IsWordAt(s, i) THEN {i} ELSE {}
  IN E[Len(re), i0]

\* regex.test(s)
test(re, s, ci) == \E i \in 1..(Len(s) + 1) : Ends(re, s, i, ci) # {}

\* (s.match(regex with the g flag) || []).length for a pattern whose matches are
\* never empty and whose greedy match is its longest one: the search for the next
\* match starts where the match before it ended.
matchCount(re, s, ci) ==
  LET LongestEnd(i) == SetMax(Ends(re, s, i, ci))
      \* Count[i]: the number of matches the search finds from position i on.
      Count[i \in 1..(Len(s) + 1)] ==
        LET starts == {j \in i..Len(s) : Ends(re, s, j, ci) # {}}
        IN IF starts = {} THEN 0 ELSE 1 + Count[LongestEnd(SetMin(starts))]
  IN Count[1]

-----------------------------------------------------------------------------
(* Pattern configuration.  A regex source of the configuration is modelled  *)
(* as its source string together with the syntax tree new RegExp builds.   *)

\* this.patterns = null
Null == [null |-> TRUE]

getDefaultPatterns ==
  [aiIndicatorWords |-> <<"delve", "tapestry", "intricate", "nuanced", "multifaceted">>,
   aiPhrasePatterns |->
     <<[source |-> "it's not .+ it's .+",
        re |-> Cat(<<Lit("it's not "), Plus(Dot), Lit(" it's "), Plus(Dot)>>)],
       [source |-> "as an AI", re |-> Lit("as an AI")]>>,
   punctuationPatterns |-> [excessiveEmDashes |-> 2],
   spamIndicators |-> [excessiveHashtags |-> 5]]

\* The configuration resource ai-patterns.json: the lists the README names, in the
\* shape of the Pattern Configuration.
FetchedPatterns ==
  [aiIndicatorWords |-> <<"delve", "tapestry", "intricate", "nuanced", "robust", "paradigm">>,
   aiPhrasePatterns |->
     <<[source |-> "as an AI", re |-> Lit("as an AI")],
       [source |-> "it's important to note", re |-> Lit("it's important to note")],
       [source |-> "in today's landscape", re |-> Lit("in today's landscape")],
       [source |-> "let's dive deep", re |-> Lit("let's dive deep")]>>,
   punctuationPatterns |-> [excessiveEmDashes |-> 2],
   spamIndicators |->
     [genericResponses |-> <<"great point", "well said", "this is so important">>,
      cryptoKeywords |-> <<"crypto", "airdrop">>,
      adultContentKeywords |-> <<"onlyfans">>,
      promotionalPhrases |-> <<"link in bio", "dm me">>,
      suspiciousLinkPatterns |->
        <<[source |-> "bit\\.ly", re |-> Lit("bit.ly")]>>]]

\* A configuration document with bad and missing entries that the matchers skip: a
\* phrase pattern and a link pattern that do not compile, each before one that does,
\* and no other list of spam indicators.
PartialPatterns ==
  [aiIndicatorWords |-> <<"delve", "tapestry", "multifaceted">>,
   aiPhrasePatterns |->
     <<[source |-> "(as an", re |-> Invalid],
       [source |-> "as an AI", re |-> Lit("as an AI")]>>,
   spamIndicators |->
     [suspiciousLinkPatterns |->
        <<[source |-> "[bit", re |-> Invalid],
          [source |-> "bit\\.ly", re |-> Lit("bit.ly")]>>]]

\* The same document with an indicator word that is no regex fragment.
BadWordPatterns == [PartialPatterns EXCEPT !.aiIndicatorWords = <<"c++", "delve">>]

\* this.patterns.spamIndicators.<name> || []
SpamList(config, name) ==
  IF name \in DOMAIN config.spamIndicators THEN config.spamIndicators[name] ELSE <<>>

HasSpamIndicators(config) == config # Null /\ "spamIndicators" \in DOMAIN config

-----------------------------------------------------------------------------
(* Feature extractor: the helper predicates of extractFeatures.            *)

countWords(text) == Len(SplitWords(text))

\* A quantifier that follows a quantifier other than as the lazy mark ? has nothing to
\* repeat: new RegExp throws a SyntaxError on "c++".
NothingToRepeat(source) ==
  \E i \in 1..Len(source) - 1 :
    At(source, i) \in {"*", "+", "?"} /\ At(source, i + 1) \in {"*", "+"}

\* new RegExp(`\\b${word.toLowerCase()}\\b`, 'gi'), for a word that is free of regex
\* syntax or has a doubled quantifier.
WordRegex(word) ==
  IF NothingToRepeat(word) THEN Invalid ELSE Cat(<<Wb, Lit(toLowerCase(word)), Wb>>)

\* countAIWords compiles every indicator word outside any try block.
countAIWordsThrows(config) ==
  /\ config # Null
  /\ "aiIndicatorWords" \in DOMAIN config
  /\ \E i \in DOMAIN config.aiIndicatorWords : WordRegex(config.aiIndicatorWords[i]) = Invalid

\* extractFeatures throws before it has touched the tracker: a TypeError of
\* text.split in countWords when the text is null, or the SyntaxError of countAIWords.
extractFeaturesThrows(config, text) == text = NullText \/ countAIWordsThrows(config)

countAIWords(config, text) ==
  LET lowerText == toLowerCase(text)
  IN IF config # Null /\ "aiIndicatorWords" \in DOMAIN config
     THEN Sum([i \in DOMAIN config.aiIndicatorWords |->
                    matchCount(WordRegex(config.aiIndicatorWords[i]), lowerText, TRUE)])
     ELSE 0

\* The sources of the patterns that compile and match, in the order of the list.
MatchingSources(list, s) ==
  LET Hit(pattern) == pattern.re # Invalid /\ test(pattern.re, s, TRUE)
      hits == SelectSeq(list, Hit)
  IN [n \in 1..Len(hits) |-> hits[n].source]

matchAIPhrases(config, text) ==
  IF config # Null /\ "aiPhrasePatterns" \in DOMAIN config
  THEN MatchingSources(config.aiPhrasePatterns, toLowerCase(text))
  ELSE <<>>

\* The seven ranges of countEmojis and hasExcessiveEmojis, and the three ranges of
\* hasEmojiInUsername, isShallowComment and hasMixedFormalEmoji.
Emoji7 == Ch(EmojiChars)
Emoji3 == Ch(EmojiChars)

countEmojis(text) == matchCount(Emoji7, text, FALSE)

hasExcessiveEmojis(text) ==
  LET emojiCount == countEmojis(text)
      totalChars == length(text)
      words == countWords(text)
      endsWithEmojis == test(Cat(<<Rep(Emoji7, 2, -1), Star(Ch(SpaceChars)), Eol>>), text, FALSE)
      lines == SplitRuns(text, {"\n"})
      emojiOnlyLines ==
        Cardinality({i \in DOMAIN lines :
                       /\ trim(lines[i]) # ""
                       /\ test(Cat(<<Bol, Plus(Emoji7), Eol>>), trim(lines[i]), FALSE)})
      repeatedEmojis ==
        \E i \in 1..(Len(text) - 1) : At(text, i) \in EmojiChars /\ At(text, i + 1) = At(text, i)
  IN \/ emojiCount > 3 /\ words < 20
     \/ 10 * emojiCount > Max(totalChars, 1) /\ emojiCount >= 3
     \/ endsWithEmojis
     \/ emojiOnlyLines >= 1
     \/ repeatedEmojis

hasGenericResponse(config, text) ==
  LET lowerText == trim(toLowerCase(text))
      Hit(response) ==
        LET lowerResponse == toLowerCase(response)
        IN \/ lowerText = lowerResponse
           \/ startsWith(lowerText, lowerResponse \o " ")
           \/ startsWith(lowerText, lowerResponse \o "!")
           \/ startsWith(lowerText, lowerResponse \o ".")
           \/ includes(lowerText, " " \o lowerResponse \o " ")
           \/ includes(lowerText, " " \o lowerResponse \o "!")
           \/ includes(lowerText, " " \o lowerResponse)
  IN IF ~HasSpamIndicators(config) \/ "genericResponses" \notin DOMAIN config.spamIndicators
     THEN FALSE
     ELSE CountTrue([i \in DOMAIN config.spamIndicators.genericResponses |-> Hit(config.spamIndicators.genericResponses[i])]) > 0

hasCryptoSpam(config, text) ==
  LET lowerText == toLowerCase(text)
      Hit(keyword) == includes(text, keyword) \/ includes(lowerText, toLowerCase(keyword))
  IN IF ~HasSpamIndicators(config) THEN FALSE
     ELSE CountTrue([i \in DOMAIN SpamList(config, "cryptoKeywords") |-> Hit(SpamList(config, "cryptoKeywords")[i])]) >= 2

hasAdultContentPromo(config, text) ==
  LET lowerText == toLowerCase(text)
      Hit(keyword) == includes(lowerText, toLowerCase(keyword))
  IN IF ~HasSpamIndicators(config) THEN FALSE
     ELSE CountTrue([i \in DOMAIN SpamList(config, "adultContentKeywords") |-> Hit(SpamList(config, "adultContentKeywords")[i])]) > 0

hasPromotionalContent(config, text) ==
  LET lowerText == toLowerCase(text)
      Hit(phrase) == includes(lowerText, toLowerCase(phrase))
  IN IF ~HasSpamIndicators(config) THEN FALSE
     ELSE CountTrue([i \in DOMAIN SpamList(config, "promotionalPhrases") |-> Hit(SpamList(config, "promotionalPhrases")[i])]) >= 2

hasSuspiciousLinks(config, text) ==
  IF ~HasSpamIndicators(config) THEN FALSE
  ELSE MatchingSources(SpamList(config, "suspiciousLinkPatterns"), text) # <<>>

\* totalWords / sentences.length, in units of 1/Scale.
getAvgSentenceLength(text) ==
  LET sentences == SplitRuns(text, {".", "!", "?"})
      totalWords == Sum([i \in DOMAIN sentences |-> countWords(sentences[i])])
  IN IF Len(sentences) = 0 THEN 0 ELSE (totalWords * Scale) \div Len(sentences)

\* uniqueWords.size / words.length, in units of 1/Scale.
getVocabularyDiversity(text) ==
  LET words == SplitWords(toLowerCase(text))
  IN IF Len(words) = 0 THEN 0 ELSE (Cardinality(Range(words)) * Scale) \div Len(words)

formalWords  == <<"therefore", "furthermore", "moreover", "consequently", "thus", "hence">>
contractions == <<"don't", "can't", "won't", "shouldn't", "wouldn't">>
slang        == <<"lol", "lmao", "bruh", "ngl", "fr", "tbh">>

\* In units of 1/Scale.
getFormalityScore(text) ==
  LET lowerText == toLowerCase(text)
      In(word) == includes(lowerText, word)
      formalityScore == 150000 * CountTrue([i \in DOMAIN formalWords |-> In(formalWords[i])])
                          - 100000 * CountTrue([i \in DOMAIN contractions |-> In(contractions[i])])
                          - 150000 * CountTrue([i \in DOMAIN slang |-> In(slang[i])])
  IN Max(0, Min(Scale, 500000 + formalityScore))


Digit  == Ch(DigitChars)
Upper  == Ch(UpperChars)
Lower  == Ch(LowerChars)
Word   == Ch(WordChars)
Space  == Ch(SpaceChars)

isSuspiciousUsername(username) ==
  LET suspiciousPatterns ==
        <<Cat(<<Bol, Upper, Plus(Lower), Rep(Digit, 4, -1), Eol>>),
          Cat(<<Bol, Upper, Plus(Lower), Lit("_"), Upper, Plus(Lower), Plus(Digit), Eol>>),
          Cat(<<Bol, Plus(Word), Rep(Digit, 8, -1), Eol>>),
          Cat(<<Bol, Plus(Word), Rep(Digit, 1, 2), Eol>>),
          Cat(<<Bol, Plus(Lower), Rep(Digit, 1, 3), Eol>>)>>
  IN \E n \in DOMAIN suspiciousPatterns : test(suspiciousPatterns[n], username, FALSE)

hasEmojiInUsername(username) == test(Emoji3, username, FALSE)

\* [\s!.]*$
ShallowTail == Cat(<<Star(Ch(SpaceChars \cup {"!", "."})), Eol>>)

shallowPatterns ==
  <<Cat(<<Bol, AltLit(<<"wow", "amazing", "nice", "cool", "great", "good", "beautiful",
                        "awesome", "incredible", "perfect", "lovely", "stunning">>),
          ShallowTail>>),
    Cat(<<Bol, AltLit(<<"love", "need", "want", "like">>), Plus(Space),
          Alt(<<Lit("this"), Lit("it"), Lit("that"),
                Cat(<<Lit("the"), Plus(Space), Plus(Word)>>)>>),
          ShallowTail>>),
    Cat(<<Bol, Lit("oh"), Plus(Space), Lit("my"), Plus(Space), AltLit(<<"god", "gosh">>),
          ShallowTail>>),
    Cat(<<Bol, Opt(Cat(<<Lit("so"), Plus(Space)>>)), AltLit(<<"true", "real", "facts">>),
          ShallowTail>>),
    Cat(<<Bol, AltLit(<<"yes", "yeah", "yep", "nope", "no", "exactly">>), ShallowTail>>),
    Cat(<<Bol, Lit("the"), Plus(Space), Lit("best"), ShallowTail>>),
    Cat(<<Bol, Lit("bravo"), ShallowTail>>),
    Cat(<<Bol, AltLit(<<"cool", "good", "nice">>), Plus(Space),
          AltLit(<<"for", "tactic", "idea", "dude", "point">>), ShallowTail>>),
    Cat(<<Bol, AltLit(<<"real", "playa">>), Plus(Space), Plus(Word), ShallowTail>>)>>

isShallowComment(text) ==
  LET normalized == trim(toLowerCase(text))
      words == countWords(text)
      textWithoutEmojis == trim(RemoveChars(text, EmojiChars))
  IN IF length(textWithoutEmojis) = 0 /\ length(text) > 0 THEN TRUE
     ELSE IF words = 1 /\ length(normalized) < 15 THEN TRUE
     ELSE IF words <= 4 /\ length(text) < 30
          THEN \E n \in DOMAIN shallowPatterns : test(shallowPatterns[n], normalized, TRUE)
          ELSE FALSE

legalTerms ==
  <<"jurisdiction", "federal law", "diplomatic immunity", "statute",
    "enforcement", "pursuant to", "hereby", "thereof", "whereby",
    "act of", "article", "section", "clause", "protocol",
    "authorities", "warrants", "illegal order", "federal authorities">>

hasLegalJargon(text) ==
  LET lowerText == toLowerCase(text)
      In(term) == includes(lowerText, term)
  IN CountTrue([i \in DOMAIN legalTerms |-> In(legalTerms[i])]) >= 3

hasMixedFormalEmoji(text) ==
  IF countWords(text) < 50 THEN FALSE
  ELSE IF ~test(Emoji3, text, FALSE) THEN FALSE
  ELSE getFormalityScore(text) > 600000

sources ==
  <<"bbc", "cnn", "reuters", "al jazeera", "the guardian", "new york times",
    "washington post", "associated press", "bloomberg", "forbes",
    "wall street journal", "propphy", "socialrails", "times", "un data",
    "per ", "as per", "according to", "sources like">>

hasMultipleSources(text) ==
  LET lowerText == toLowerCase(text)
      In(source) == includes(lowerText, source)
  IN CountTrue([i \in DOMAIN sources |-> In(sources[i])]) >= 2

balancedPhrases ==
  <<"in contrast", "however", "on the other hand", "while",
    "perspectives vary", "views vary", "both", "either",
    "some say", "others argue", "but also", "yet">>

hasBalancedCommentary(text) ==
  LET lowerText == toLowerCase(text)
      In(phrase) == includes(lowerText, phrase)
  IN CountTrue([i \in DOMAIN balancedPhrases |-> In(balancedPhrases[i])]) >= 2 /\ countWords(text) > 30

hooks ==
  <<Cat(<<Lit("what's your "),
          AltLit(<<"main use case", "take", "view", "thought", "opinion">>), Lit("?")>>),
    Lit("your take?"),
    Lit("what do you think?"),
    Lit("thoughts?"),
    Lit("what part's the"),
    Cat(<<Lit("share "), Plus(Dot), Lit(" when you can")>>),
    Lit("what evidence sways you")>>

hasConversationalHook(text) == \E n \in DOMAIN hooks : test(hooks[n], text, TRUE)

\* /\b(Act of \d{4}|Article \d+|Section \d+|\d{4}\s+[A-Z][a-z]+\s+[A-Z][a-z]+)\b/
CitationRegex ==
  Cat(<<Wb,
        Alt(<<Cat(<<Lit("Act of "), Rep(Digit, 4, 4)>>),
              Cat(<<Lit("Article "), Plus(Digit)>>),
              Cat(<<Lit("Section "), Plus(Digit)>>),
              Cat(<<Rep(Digit, 4, 4), Plus(Space), Upper, Plus(Lower),
                    Plus(Space), Upper, Plus(Lower)>>)>>),
        Wb>>)

\* text.split(/\n\n+/).filter(p => p.trim().length > 0): a separator is a run of
\* two or more line feeds.
Paragraphs(s) ==
  LET nl == {i \in 1..Len(s) : At(s, i) = "\n"}
      NotBlank(piece) == trim(piece) # ""
  IN SelectSeq(Runs(s, {i \in nl : i - 1 \in nl \/ i + 1 \in nl}), NotBlank)

\* The three characters the em-dash pattern of the source is made of.
EmDash == "{|}"
\* The characters of the bullet-point class that are in the model's alphabet.
BulletChars == {"{", "|"}

\* metadata.<name>, Undefined when the field is not provided.
Field(metadata, name) == IF name \in DOMAIN metadata THEN metadata[name] ELSE Undefined
\* A string field is truthy when it is provided and not empty.
Truthy(metadata, name) == name \in DOMAIN metadata /\ metadata[name] # ""


\* The features of extractFeatures that the text and the configuration determine.
TextFeatures(config, text) ==
  LET totalWords == countWords(text)
      paragraphs == Paragraphs(text)
  IN [aiWordCount |-> countAIWords(config, text),
      totalWords |-> totalWords,
      aiPhraseMatches |-> matchAIPhrases(config, text),
      emDashCount |-> matchCount(Lit(EmDash), text, FALSE),
      colonCount |-> CountChars(text, {":"}),
      semicolonCount |-> CountChars(text, {";"}),
      quotationCount |-> CountChars(text, {"\""}),
      hasBulletPoints |-> CountChars(text, BulletChars) > 0,
      hasNumberedList |-> test(Cat(<<BolM, Plus(Digit), Ch({".", ")"}), Space>>), text, FALSE),
      paragraphCount |-> Len(paragraphs),
      isLongThread |-> totalWords > 100 /\ Len(paragraphs) > 2,
      hasCitations |-> test(CitationRegex, text, FALSE),
      hasLegalJargon |-> hasLegalJargon(text),
      hasMixedFormalEmoji |-> hasMixedFormalEmoji(text),
      hasMultipleSources |-> hasMultipleSources(text),
      hasBalancedCommentary |-> hasBalancedCommentary(text),
      hasConversationalHook |-> hasConversationalHook(text),
      hashtagCount |-> matchCount(Cat(<<Lit("#"), Plus(Word)>>), text, FALSE),
      mentionCount |-> matchCount(Cat(<<Lit("@"), Plus(Word)>>), text, FALSE),
      allCapsWords |-> matchCount(Cat(<<Wb, Rep(Upper, 3, -1), Wb>>), text, FALSE),
      emojiCount |-> countEmojis(text),
      hasExcessiveEmojis |-> hasExcessiveEmojis(text),
      hasGenericResponse |-> hasGenericResponse(config, text),
      hasCryptoSpam |-> hasCryptoSpam(config, text),
      hasAdultContentPromo |-> hasAdultContentPromo(config, text),
      hasPromotionalContent |-> hasPromotionalContent(config, text),
      linkCount |-> matchCount(Cat(<<Lit("http"), Opt(Lit("s")), Lit("://"),
                                     Plus(NotCh(SpaceChars))>>), text, FALSE),
      hasSuspiciousLinks |-> hasSuspiciousLinks(config, text),
      avgSentenceLength |-> getAvgSentenceLength(text),
      vocabularyDiversity |-> getVocabularyDiversity(text),
      formalityScore |-> getFormalityScore(text),
      isVeryShortTweet |-> totalWords <= 3 /\ length(text) < 30,
      isShallowComment |-> isShallowComment(text)]

\* TextFeatures of the model's posts under the configurations they are analyzed
\* against, computed once: the posts that fill the tracker are analyzed against the
\* fetched configuration only.
Configs == <<getDefaultPatterns, FetchedPatterns, PartialPatterns>>
FeaturesOf ==
  [a \in {<<n, t>> : n \in DOMAIN Configs, t \in Texts \cup EdgeTexts}
          \cup {<<2, t>> : t \in KnownTexts}
     |-> TextFeatures(Configs[a[1]], a[2])]

\* isSuspiciousUsername of the model's user names, computed once.
SuspiciousOf == [name \in KnownNames |-> isSuspiciousUsername(name)]

\* hasEmojiInUsername of the model's display names, computed once.
EmojiNameOf == [name \in KnownDisplayNames |-> hasEmojiInUsername(name)]

\* The features extractFeatures returns.
Features(config, cache, text, metadata) ==
  FeaturesOf[<<CHOOSE n \in DOMAIN Configs : Configs[n] = config, text>>]
  @@ [isNewAccount |-> IF "accountAge" \in DOMAIN metadata /\ metadata.accountAge # 0
                       THEN metadata.accountAge < 90 ELSE FALSE,
      hasSuspiciousName |-> IF Truthy(metadata, "username")
                            THEN SuspiciousOf[metadata.username] ELSE FALSE,
      hasAffiliateBadge |-> "hasAffiliateBadge" \in DOMAIN metadata /\ metadata.hasAffiliateBadge,
      hasEmojiUsername |-> IF Truthy(metadata, "displayName")
                           THEN EmojiNameOf[metadata.displayName] ELSE FALSE,
      isDuplicateContent |-> checkDuplicateContent(cache, text, Field(metadata, "username"))]

\* extractFeatures without the addToCache call at its end.
extractFeatures_NoRecord(config, cache, text, metadata) ==
  [features |-> Features(config, cache, text, metadata), recentTweets |-> cache]

\* extractFeatures: the features it returns and the tracker it leaves.
extractFeatures(config, cache, text, metadata) ==
  [features |-> Features(config, cache, text, metadata),
   recentTweets |-> addToCache(cache, text, Field(metadata, "username"))]

-----------------------------------------------------------------------------
(* Scorer.  Sub-scores and the total are in units of 1/Scale; the category  *)
(* weights are in thousandths.                                             *)

weights ==
  [aiWord |-> 250, aiPhrase |-> 300, punctuation |-> 150, structure |-> 120,
   spam |-> 150, botSpam |-> 350, stylometric |-> 180, metadata |-> 100]

\* The increment a feature adds to its category's sub-score, and its reason.
If(cond, amount) == IF cond THEN amount ELSE 0
Why(cond, reason) == IF cond THEN <<reason>> ELSE <<>>

\* subScore * weight, without Math.min(subScore, 1).
Weighted_Uncapped(subScore, weight) == (subScore * weight) \div 1000

\* Math.min(subScore, 1) * weight
Weighted(subScore, weight) == (Min(subScore, Scale) * weight) \div 1000

\* reasons.slice(0, 5)
MaxReasons == 5
slice(reasons) == SubSeq(reasons, 1, Min(Len(reasons), MaxReasons))

\* Math.min(aiWordRatio * 25, 1) for aiWordRatio = aiWordCount / Math.max(totalWords, 1)
aiWordScore(features) ==
  LET words == Max(features.totalWords, 1)
  IN IF 25 * features.aiWordCount >= words THEN Scale
     ELSE (25 * features.aiWordCount * Scale) \div words

\* The total of calculateAIScore before Math.min(score, 1).
TotalScore(features) ==
  LET words == Max(features.totalWords, 1)
      punctScore == If(features.emDashCount >= 1, 500000)
                      + If(features.colonCount >= 2, 400000)
                      + If(features.semicolonCount >= 1, 400000)
                      + If(features.quotationCount >= 3, 300000)
      structScore == If(features.hasBulletPoints, 500000)
                       + If(features.hasNumberedList, 500000)
                       + If(features.isLongThread, 600000)
                       + If(features.hasCitations, 700000)
                       + If(features.hasLegalJargon, 600000)
                       + If(features.hasMixedFormalEmoji, 700000)
                       + If(features.hasMultipleSources, 800000)
                       + If(features.hasBalancedCommentary, 700000)
                       + If(features.hasConversationalHook, 600000)
      spamScore == If(features.hashtagCount > 3, 500000)
                     + If(features.mentionCount > 2, 500000)
                     + If(features.hasExcessiveEmojis, 600000)
                     + If(features.hasGenericResponse, 600000)
      botSpamScore == If(features.hasCryptoSpam, 600000)
                        + If(features.hasAdultContentPromo, 700000)
                        + If(features.hasPromotionalContent, 500000)
                        + If(features.linkCount >= 2, 300000)
                        + If(features.hasSuspiciousLinks, 400000)
      styleScore == If(features.vocabularyDiversity < 750000, 500000)
                      + If(features.formalityScore > 500000, 500000)
      metaScore == If(features.isNewAccount, 400000)
                     + If(features.hasSuspiciousName, 600000)
                     + If(features.hasAffiliateBadge, 700000)
                     + If(features.hasEmojiUsername, 500000)
  IN If(100 * features.aiWordCount > words, Weighted(aiWordScore(features), weights.aiWord))
       + If(Len(features.aiPhraseMatches) > 0,
            Weighted(Len(features.aiPhraseMatches) * 600000, weights.aiPhrase))
       + Weighted(punctScore, weights.punctuation)
       + Weighted(structScore, weights.structure)
       + Weighted(spamScore, weights.spam)
       + Weighted(botSpamScore, weights.botSpam)
       + Weighted(styleScore, weights.stylometric)
       + Weighted(metaScore, weights.metadata)
       + If(features.isVeryShortTweet, 600000)
       + If(features.isShallowComment, 700000)
       + If(features.isDuplicateContent, 800000)

\* The reasons of calculateAIScore in the order they are pushed, before the slice.
\* The numbers a reason interpolates are left out of its text.
AllReasons(features) ==
  LET words == Max(features.totalWords, 1)
  IN Why(100 * features.aiWordCount > words /\ 50 * features.aiWordCount > words,
         "High AI vocabulary usage")
     \o Why(Len(features.aiPhraseMatches) > 0, "AI phrase patterns detected")
     \o Why(features.emDashCount >= 1, "Excessive em-dashes")
     \o Why(features.quotationCount >= 3, "Excessive quotation marks")
     \o Why(features.hasBulletPoints, "Bullet points in tweet")
     \o Why(features.hasNumberedList, "Numbered list format")
     \o Why(features.isLongThread, "Long multi-paragraph thread format")
     \o Why(features.hasCitations, "Contains legal citations")
     \o Why(features.hasLegalJargon, "Heavy legal/formal jargon")
     \o Why(features.hasMixedFormalEmoji, "Formal text with emoji ending (bot pattern)")
     \o Why(features.hasMultipleSources, "Multiple source citations (AI pattern)")
     \o Why(features.hasBalancedCommentary, "Artificial both-sides balanced commentary")
     \o Why(features.hasConversationalHook, "Question hook asking for engagement")
     \o Why(features.hashtagCount > 3, "Excessive hashtags")
     \o Why(features.mentionCount > 2, "Excessive mentions")
     \o Why(features.hasExcessiveEmojis, "Excessive emojis detected")
     \o Why(features.hasGenericResponse, "Generic/bot-like response")
     \o Why(features.hasCryptoSpam, "Crypto/financial spam detected")
     \o Why(features.hasAdultContentPromo, "Adult content promotion detected")
     \o Why(features.hasPromotionalContent, "Promotional/engagement bait")
     \o Why(features.linkCount >= 2, "Multiple links")
     \o Why(features.hasSuspiciousLinks, "Suspicious link patterns")
     \o Why(features.vocabularyDiversity < 750000, "Low vocabulary diversity")
     \o Why(features.formalityScore > 500000, "High formality score")
     \o Why(features.isNewAccount, "New account")
     \o Why(features.hasSuspiciousName, "Suspicious username pattern")
     \o Why(features.hasAffiliateBadge, "Account has affiliate badge")
     \o Why(features.hasEmojiUsername, "Emoji-heavy username")
     \o Why(features.isVeryShortTweet, "Very short low-effort tweet")
     \o Why(features.isShallowComment, "Shallow engagement-bait comment")
     \o Why(features.isDuplicateContent, "Duplicate/copied content detected")

\* calculateAIScore without Math.min(score, 1) and without slice(0, 5).
calculateAIScore_Uncapped(features) ==
  [confidence |-> TotalScore(features), reasons |-> AllReasons(features)]

calculateAIScore(features) ==
  [confidence |-> Min(TotalScore(features), Scale),
   reasons |-> slice(AllReasons(features))]


-----------------------------------------------------------------------------
(* Detector (facade).                                                      *)

knownAIBots ==
  <<"grok", "chatgpt", "claude", "gemini", "copilot", "bard", "metaai",
    "perplexity_ai", "anthropic", "openai">>

\* The normalization without toLowerCase().
NormalizeUsername_KeepsCase(username) == RemoveChars(username, {"@"} \cup SpaceChars)

\* (metadata.username || '').toLowerCase().replace(/[@\s]/g, '')
NormalizeUsername(username) == RemoveChars(toLowerCase(username), {"@"} \cup SpaceChars)

isKnownBot(username) ==
  \E n \in DOMAIN knownAIBots :
    includes(username, knownAIBots[n]) \/ includes(knownAIBots[n], username)

\* The statistics update counting every analysis as a detection.
CountAnalysis_DetectsAll(st, isAI, confidence) ==
  [tweetsAnalyzed |-> st.tweetsAnalyzed + 1,
   aiDetected |-> st.aiDetected + 1,
   confidenceSum |-> IF isAI THEN st.confidenceSum + confidence ELSE st.confidenceSum]

\* The statistics update counting a detection only above a confidence of 0.5.
CountAnalysis_Threshold(st, isAI, confidence) ==
  [tweetsAnalyzed |-> st.tweetsAnalyzed + 1,
   aiDetected |-> IF isAI /\ confidence > 500000 THEN st.aiDetected + 1 ELSE st.aiDetected,
   confidenceSum |-> IF isAI THEN st.confidenceSum + confidence ELSE st.confidenceSum]

\* The statistics after an analysis that returned isAI and confidence.
CountAnalysis(st, isAI, confidence) ==
  [tweetsAnalyzed |-> st.tweetsAnalyzed + 1,
   aiDetected |-> IF isAI THEN st.aiDetected + 1 ELSE st.aiDetected,
   confidenceSum |-> IF isAI THEN st.confidenceSum + confidence ELSE st.confidenceSum]

\* The flag without the confidence test.
IsAI_ReasonsOnly(score) == Len(score.reasons) > 0

\* Flag as AI if any indicator is found.
IsAI(score) == Len(score.reasons) > 0 \/ score.confidence > 0

\* The generic path of analyze after extractFeatures has returned.
Scored(extracted, st) ==
  LET score == calculateAIScore(extracted.features)
      isAI == IsAI(score)
  IN [result |-> [isAI |-> isAI, confidence |-> score.confidence,
                  reasons |-> score.reasons, features |-> extracted.features],
      recentTweets |-> extracted.recentTweets,
      stats |-> CountAnalysis(st, isAI, score.confidence)]

\* The known-bot check of analyze.
IsKnownBotAccount(metadata) ==
  Truthy(metadata, "username") /\ isKnownBot(NormalizeUsername(metadata.username))

\* analyze throws, its promise rejects, when it gets to extractFeatures and that throws;
\* the statistics are counted after extractFeatures only.
analyzeThrows(p, text, metadata) == ~IsKnownBotAccount(metadata) /\ extractFeaturesThrows(p, text)

\* The body of analyze after the configuration is there, when it does not throw: the
\* value returned, and the tracker and the statistics it leaves.
analyze(p, cache, st, text, metadata) ==
  IF IsKnownBotAccount(metadata)
  THEN [result |-> [isAI |-> TRUE, confidence |-> Scale,
                    reasons |-> <<"Official AI bot account">>,
                    features |-> [isKnownAIBot |-> TRUE]],
        recentTweets |-> cache,
        stats |-> CountAnalysis(st, TRUE, Scale)]
  ELSE Scored(extractFeatures(p, cache, text, metadata), st)

\* The ways a load ends: fetch and response.json() both resolve ("ok"), or one of
\* them fails.
LoadOutcomes == {"ok", "failed"}

\* loadPatterns without its catch block: a failure leaves the configuration as it is
\* and rejects the promise.
loadPatterns_NoCatch(current, outcome) ==
  IF outcome = "ok" THEN [patterns |-> FetchedPatterns, rejected |-> FALSE]
  ELSE [patterns |-> current, rejected |-> TRUE]

\* What a finished loadPatterns leaves: the configuration, and whether its promise
\* rejects.
loadPatterns(current, outcome) ==
  IF outcome = "ok" THEN [patterns |-> FetchedPatterns, rejected |-> FALSE]
  ELSE [patterns |-> getDefaultPatterns, rejected |-> FALSE]

getStats(st) ==
  [tweetsAnalyzed |-> st.tweetsAnalyzed,
   aiDetected |-> st.aiDetected,
   confidenceSum |-> st.confidenceSum,
   avgConfidence |-> IF st.aiDetected > 0 THEN st.confidenceSum \div st.aiDetected ELSE 0,
   detectionRate |-> IF st.tweetsAnalyzed > 0
                     THEN (st.aiDetected * Scale) \div st.tweetsAnalyzed ELSE 0]

ZeroStats == [tweetsAnalyzed |-> 0, aiDetected |-> 0, confidenceSum |-> 0]


-----------------------------------------------------------------------------
(* State of one AIDetector and of the calls made on it.                    *)

VARIABLES
  patterns,       \* this.patterns: Null or a pattern configuration
  stats,          \* this.stats
  recentTweets,   \* this.recentTweets
  loads,          \* the loadPatterns invocations in flight, oldest first
  history,        \* the analyze calls that have settled, oldest first
  last            \* the operation that finished last, with what it returned

\* The content script around the detector, and the background worker.
VARIABLES
  enabled,          \* settings.enabled of the content script
  processedTweets,  \* processedTweets: the ids of the tweets analyzed
  highlighted,      \* the ids of the tweets that carry the highlight class and a badge
  sent,             \* the AI_DETECTED messages the content script has sent, by tweet id
  startup,          \* the callbacks set up as the script starts that are still to run
  analyzed,         \* the ids passed to detector.analyze since processedTweets was last
                    \* cleared
  globalStats,      \* globalStats in chrome.storage.local
  handlers          \* the handleAIDetection invocations of the worker, in order of
                    \* arrival, each with its position and its copy of globalStats

hostVars ==
  <<enabled, processedTweets, highlighted, sent, startup, analyzed, globalStats, handlers>>

vars ==
  <<patterns, stats, recentTweets, loads, history, last,
    enabled, processedTweets, highlighted, sent, startup, analyzed, globalStats, handlers>>

\* A load in flight is the analyze call that awaits it (the constructor's load is
\* awaited by none).
NoCall == [none |-> TRUE]
Call(text, metadata) == [text |-> text, metadata |-> metadata]

\* The analyze calls the callers make.
Calls ==
  {Call(T_News, [username |-> "alice"]), Call(T_News, [username |-> "bob"]),
   Call(T_Robust, [username |-> "alice"]), Call(T_Robust, [username |-> Grok])}

completed == Len(history)
Pending == Cardinality({i \in DOMAIN loads : loads[i] # NoCall})

Remove(seq, i) == SubSeq(seq, 1, i - 1) \o SubSeq(seq, i + 1, Len(seq))

\* The content script as it is loaded: the settings are read from storage and the
\* initial scan is on its timer; the worker as the extension is installed.
InitHost ==
  /\ enabled = TRUE
  /\ processedTweets = {}
  /\ highlighted = {}
  /\ sent = <<>>
  /\ startup = {"settings", "scan"}
  /\ analyzed = <<>>
  /\ globalStats = [totalTweetsAnalyzed |-> 0, totalAIDetected |-> 0, detections |-> <<>>]
  /\ handlers = <<>>

\* new AIDetector(): the constructor has called loadPatterns, whose fetch is in flight.
Init ==
  /\ patterns = Null
  /\ stats = ZeroStats
  /\ recentTweets = <<>>
  /\ loads = <<NoCall>>
  /\ history = <<>>
  /\ last = [op |-> "new"]
  /\ InitHost

\* analyze(call) returns: a is what its body gives.
Return(a, call, awaited) ==
  /\ stats' = a.stats
  /\ recentTweets' = a.recentTweets
  /\ history' = Append(history, call)
  /\ last' = [op |-> "analyze", call |-> call, outcome |-> "returned",
              awaited |-> awaited, result |-> a.result]

\* analyze(call) throws: its promise rejects and the detector is left as it was.
Reject(call, awaited) ==
  /\ history' = Append(history, call)
  /\ last' = [op |-> "analyze", call |-> call, outcome |-> "rejected", awaited |-> awaited]
  /\ UNCHANGED <<stats, recentTweets>>

\* The rest of analyze(call) running to its end against configuration p; awaited
\* tells how the call got past the load: "none" or the load's outcome.
Finish(call, p, awaited) ==
  IF analyzeThrows(p, call.text, call.metadata)
  THEN Reject(call, awaited)
  ELSE Return(analyze(p, recentTweets, stats, call.text, call.metadata), call, awaited)

\* analyze(text, metadata) is called while the configuration is set: it runs to its
\* return without suspending.
AnalyzeSync(text, metadata) ==
  /\ patterns # Null
  /\ Finish(Call(text, metadata), patterns, "none")
  /\ UNCHANGED <<patterns, loads>>

\* analyze(text, metadata) is called while the configuration is not set: it calls
\* loadPatterns, which issues a fetch, and suspends on it.
AnalyzeAwait(text, metadata) ==
  /\ patterns = Null
  /\ loads' = Append(loads, Call(text, metadata))
  /\ UNCHANGED <<patterns, stats, recentTweets, history, last>>

\* The settling of a load after which the analyze call that awaited it runs against
\* the default set, whatever the load has installed.
LoadSettle_DefaultSnapshot(i, outcome) ==
  LET lp == loadPatterns(patterns, outcome)
      call == loads[i]
  IN /\ patterns' = lp.patterns
     /\ loads' = Remove(loads, i)
     /\ IF call = NoCall
        THEN /\ last' = [op |-> "loadPatterns", outcome |-> outcome,
                         rejected |-> lp.rejected]
             /\ UNCHANGED <<stats, recentTweets, history>>
        ELSE Finish(call, getDefaultPatterns, outcome)

\* The settling of a load after which the analyze call that awaited it works on the
\* tracker and the statistics as they were when the call was made, before any call
\* had run: its check, its insert and its count are not one step with the reads.
LoadSettle_StaleState(i, outcome) ==
  LET lp == loadPatterns(patterns, outcome)
      call == loads[i]
  IN /\ patterns' = lp.patterns
     /\ loads' = Remove(loads, i)
     /\ IF call = NoCall
        THEN /\ last' = [op |-> "loadPatterns", outcome |-> outcome,
                         rejected |-> lp.rejected]
             /\ UNCHANGED <<stats, recentTweets, history>>
        ELSE Return(analyze(lp.patterns, <<>>, ZeroStats, call.text, call.metadata),
                    call, outcome)

\* Load i settles.  loadPatterns sets the configuration and returns, and the analyze
\* call that awaited it, if any, runs to its return in the same turn.
LoadSettle(i, outcome) ==
  LET lp == loadPatterns(patterns, outcome)
      call == loads[i]
  IN /\ patterns' = lp.patterns
     /\ loads' = Remove(loads, i)
     /\ IF call = NoCall
        THEN /\ last' = [op |-> "loadPatterns", outcome |-> outcome,
                         rejected |-> lp.rejected]
             /\ UNCHANGED <<stats, recentTweets, history>>
        ELSE IF lp.rejected THEN Reject(call, outcome)
        ELSE Finish(call, lp.patterns, outcome)

\* resetStats with the tracker cleared as well.
resetStats_ClearsTracker ==
  /\ stats' = ZeroStats
  /\ recentTweets' = <<>>
  /\ last' = [op |-> "resetStats"]
  /\ UNCHANGED <<patterns, loads, history>>

resetStats ==
  /\ stats' = ZeroStats
  /\ last' = [op |-> "resetStats"]
  /\ UNCHANGED <<patterns, recentTweets, loads, history>>

GetStats ==
  /\ last' = [op |-> "getStats", result |-> getStats(stats)]
  /\ UNCHANGED <<patterns, stats, recentTweets, loads, history>>

\* Any interleaving of at most MaxCalls analyze calls, at most MaxPending of them
\* suspended at a time, with loads, resets and reads.
Next ==
  \/ \E call \in Calls :
       /\ completed + Pending < MaxCalls
       /\ AnalyzeSync(call.text, call.metadata)
       /\ UNCHANGED hostVars
  \/ \E call \in Calls :
       /\ completed + Pending < MaxCalls
       /\ Pending < MaxPending
       /\ AnalyzeAwait(call.text, call.metadata)
       /\ UNCHANGED hostVars
  \/ \E i \in DOMAIN loads, outcome \in LoadOutcomes :
       LoadSettle(i, outcome) /\ UNCHANGED hostVars
  \/ resetStats /\ UNCHANGED hostVars
  \/ GetStats /\ UNCHANGED hostVars

Spec == Init /\ [][Next]_vars

\* A fetch in flight resolves or rejects: its load leaves loads.
FetchSettles == \E i \in DOMAIN loads : loads' = Remove(loads, i)

\* Every fetch resolves or rejects in the end.
SpecLive == Spec /\ WF_loads(FetchSettles)

-----------------------------------------------------------------------------
(* The tracker at its capacity: one caller fills it with WarmUp distinct   *)
(* posts, the first of them possibly one whose normalized text is empty,   *)
(* and the calls that follow take it over maxCacheSize.                    *)

\* The calls offered after n calls have settled.
Offered(n) ==
  IF n = 0 THEN {Call(Post(0), [username |-> "alice"]), Call(T_Bangs, [username |-> "alice"])}
  ELSE IF n < WarmUp THEN {Call(Post(n), [username |-> "alice"])}
  ELSE {Call(Post(n), [username |-> "alice"]),      \* one more new post
        Call(Post(1), [username |-> "bob"]),        \* a post the tracker holds
        Call(T_Bangs, [username |-> "bob"])}        \* the empty normalized text

NextCache ==
  \/ loads # <<>> /\ LoadSettle(1, "ok") /\ UNCHANGED hostVars
  \/ \E call \in Offered(completed) :
       completed < MaxFill /\ AnalyzeSync(call.text, call.metadata) /\ UNCHANGED hostVars

SpecCache == Init /\ [][NextCache]_vars

-----------------------------------------------------------------------------
(* The edges of the input space: the constructor's load settles with one   *)
(* of several documents or fails, and at most MaxEdgeCalls analyses        *)
(* follow, called directly or by the content script for a tweet.           *)

\* The default parameter value of analyze: metadata = {}.
NoMetadata == <<>>

\* The documents the configuration resource may hold.
Documents == {FetchedPatterns, PartialPatterns, BadWordPatterns}

\* Account ages in days, on both sides of the 90 of isNewAccount.
AccountAges == {0, 1, 89, 90}

EdgeCalls ==
  {Call(T_Empty, NoMetadata), Call(NullText, NoMetadata), Call(NullText, [username |-> Grok]),
   Call(T_Blank, NoMetadata), Call(T_Emoji, NoMetadata), Call(T_Digits, NoMetadata),
   Call(T_Nice, [username |-> "alice"]), Call(T_AsAnAI, [username |-> "alice"]),
   Call(T_Vocabulary, [username |-> "alice"]),
   Call(T_Dogs8, [username |-> "bob"]), Call(T_Dogs4, [username |-> "alice"]),
   Call(T_Dogs5, [username |-> "alice"]), Call(T_Dogs9, [username |-> "alice"]),
   Call(T_Nice, [username |-> AtSign]), Call(T_Nice, [username |-> Fragment])}
    \cup {Call(T_Nice, [username |-> "alice", accountAge |-> age]) : age \in AccountAges}

\* The constructor's load settles: fetch and response.json() give the document, or
\* one of them fails and the catch block installs the default set.
LoadDocument(document, outcome) ==
  /\ loads = <<NoCall>>
  /\ patterns' = IF outcome = "ok" THEN document ELSE getDefaultPatterns
  /\ loads' = <<>>
  /\ last' = [op |-> "loadPatterns", outcome |-> outcome, rejected |-> FALSE]
  /\ UNCHANGED <<stats, recentTweets, history>>

\* The settings of the content script as it starts.
settings == [enabled |-> TRUE, confidenceThreshold |-> (6 * Scale) \div 10, showConfidence |-> TRUE]

\* What extractTweetData reads off the tweet elements of the page.
Tweets ==
  {[text |-> T_AsAnAI, username |-> "alice", displayName |-> "Alice", hasAffiliateBadge |-> FALSE],
   [text |-> T_Nice, username |-> "bob", displayName |-> "Bob ~", hasAffiliateBadge |-> FALSE],
   [text |-> T_Dogs4, username |-> "bob", displayName |-> "Bob ~", hasAffiliateBadge |-> FALSE]}

\* analyzeTweetElement after analyze has returned: the tweet is highlighted, with a
\* badge, if the result says isAI.
Shown(a, call) ==
  /\ stats' = a.stats
  /\ recentTweets' = a.recentTweets
  /\ history' = Append(history, call)
  /\ last' = [op |-> "analyzeTweetElement", call |-> call, outcome |-> "returned",
              awaited |-> "none", result |-> a.result, highlighted |-> a.result.isAI]

\* analyzeTweetElement for a tweet element that has a text and was not processed
\* before, while the configuration is set.  When analyze rejects, so does the handler,
\* before it gets to highlight anything.
AnalyzeTweetElement(tweet) ==
  LET metadata == [username |-> tweet.username, displayName |-> tweet.displayName,
                   hasAffiliateBadge |-> tweet.hasAffiliateBadge]
  IN /\ patterns # Null
     /\ tweet.text # ""
     /\ IF analyzeThrows(patterns, tweet.text, metadata)
        THEN Reject(Call(tweet.text, metadata), "none")
        ELSE Shown(analyze(patterns, recentTweets, stats, tweet.text, metadata),
                   Call(tweet.text, metadata))
     /\ UNCHANGED <<patterns, loads>>

NextEdge ==
  \/ \E document \in Documents, outcome \in LoadOutcomes :
       LoadDocument(document, outcome) /\ UNCHANGED hostVars
  \/ \E call \in EdgeCalls :
       completed < MaxEdgeCalls /\ AnalyzeSync(call.text, call.metadata) /\ UNCHANGED hostVars
  \/ \E tweet \in Tweets :
       completed < MaxEdgeCalls /\ AnalyzeTweetElement(tweet) /\ UNCHANGED hostVars

SpecEdge == Init /\ [][NextEdge]_vars

-----------------------------------------------------------------------------
(* The content script on a page that shows the tweets of Timeline: the     *)
(* MutationObserver callback, the initial scan, the messages of the popup  *)
(* and the changes of the settings, in any order, with the loads of the    *)
(* detector, whose fetches succeed; at most MaxPageCalls tweet elements    *)
(* are handed to analyze.                                                  *)

\* What findTweetElements returns, each element with the status id getTweetId reads
\* off its link and the data extractTweetData reads off it.
Timeline ==
  <<[id |-> "1001", text |-> T_AsAnAI, username |-> "alice", displayName |-> "Alice",
     hasAffiliateBadge |-> FALSE],
    [id |-> "1002", text |-> T_News, username |-> "bob", displayName |-> "Bob ~",
     hasAffiliateBadge |-> FALSE]>>

\* The metadata analyzeTweetElement prepares for analyze.
TweetMetadata(tweet) ==
  [username |-> tweet.username, displayName |-> tweet.displayName,
   hasAffiliateBadge |-> tweet.hasAffiliateBadge]

\* The analyze call of analyzeTweetElement suspended at the load, with the id of its
\* tweet element.
TweetCall(tweet) == [text |-> tweet.text, metadata |-> TweetMetadata(tweet), id |-> tweet.id]

\* What a handler of the content script works on.
Page ==
  [stats |-> stats, recentTweets |-> recentTweets, loads |-> loads, history |-> history,
   processedTweets |-> processedTweets, highlighted |-> highlighted, sent |-> sent,
   analyzed |-> analyzed]

\* analyzeTweetElement after analyze has returned: the id is stored, and a tweet that
\* is found to be AI is highlighted and reported to the worker.
Processed(page, id, a, call) ==
  [page EXCEPT !.stats = a.stats,
               !.recentTweets = a.recentTweets,
               !.history = Append(@, call),
               !.processedTweets = @ \cup {id},
               !.highlighted = IF a.result.isAI THEN @ \cup {id} ELSE @,
               !.sent = IF a.result.isAI THEN Append(@, id) ELSE @]

\* analyzeTweetElement(tweet) in a handler that found the ids of seen processed: a
\* processed tweet is skipped; while the configuration is not set the call of analyze
\* suspends at its load; otherwise analyze returns and the handler goes on.
analyzeTweetElement(page, tweet, seen) ==
  LET call == Call(tweet.text, TweetMetadata(tweet))
      called == [page EXCEPT !.analyzed = Append(@, tweet.id)]
  IN IF tweet.id \in seen \/ tweet.text = "" THEN page
     ELSE IF patterns = Null
       THEN [called EXCEPT !.loads = Append(@, TweetCall(tweet))]
     ELSE IF analyzeThrows(patterns, call.text, call.metadata)
       THEN [called EXCEPT !.history = Append(@, call)]
     ELSE Processed(called, tweet.id,
                    analyze(patterns, called.recentTweets, called.stats, call.text,
                            call.metadata), call)

\* tweets.forEach(tweetElement => analyzeTweetElement(tweetElement))
ScanTimeline(page) ==
  LET Scanned[k \in 0..Len(Timeline)] ==
        IF k = 0 THEN page
        ELSE analyzeTweetElement(Scanned[k - 1], Timeline[k], page.processedTweets)
  IN Scanned[Len(Timeline)]

\* The state a handler leaves.
Leaves(page, op) ==
  /\ stats' = page.stats
  /\ recentTweets' = page.recentTweets
  /\ loads' = page.loads
  /\ history' = page.history
  /\ processedTweets' = page.processedTweets
  /\ highlighted' = page.highlighted
  /\ sent' = page.sent
  /\ analyzed' = page.analyzed
  /\ last' = [op |-> op]

\* removeAllHighlights: the class, the styles and the badge are taken off every
\* highlighted tweet, and processedTweets is cleared.
removeAllHighlights(page) ==
  [page EXCEPT !.highlighted = {}, !.processedTweets = {}, !.analyzed = <<>>]

\* The number of tweet elements handed to analyze so far.
Started == Len(history) + Pending

\* A scan of the timeline stays within the bound.
MayScan == Started + Len(Timeline) <= MaxPageCalls

\* The callback of chrome.storage.sync.get as the script starts.
SettingsLoaded(value) ==
  /\ "settings" \in startup
  /\ startup' = startup \ {"settings"}
  /\ enabled' = value
  /\ last' = [op |-> "settingsLoaded"]
  /\ UNCHANGED <<patterns, stats, recentTweets, loads, history, processedTweets,
                 highlighted, sent, analyzed>>

\* The chrome.storage.onChanged listener.
SettingsChanged(value) ==
  /\ enabled' = value
  /\ Leaves(IF value THEN Page ELSE removeAllHighlights(Page), "settingsChanged")
  /\ UNCHANGED <<patterns, startup>>

\* The three handlers that scan the timeline: the MutationObserver callback, which
\* returns at once while the settings say disabled; the initial scan, once, on its
\* timer of 2 seconds; and the RESCAN message of the popup, which calls
\* removeAllHighlights first.
ScanSources == {"mutations", "initialScan", "RESCAN"}

Scan(source) ==
  /\ MayScan
  /\ source = "initialScan" => "scan" \in startup
  /\ startup' = IF source = "initialScan" THEN startup \ {"scan"} ELSE startup
  /\ IF source = "mutations" /\ ~enabled
     THEN Leaves(Page, source)
     ELSE Leaves(ScanTimeline(IF source = "RESCAN" THEN removeAllHighlights(Page) ELSE Page),
                 source)
  /\ UNCHANGED <<patterns, enabled>>

\* The RESET_STATS message of the popup.
ResetStatsMessage ==
  /\ Leaves([Page EXCEPT !.stats = ZeroStats, !.processedTweets = {}, !.analyzed = <<>>],
            "RESET_STATS")
  /\ UNCHANGED <<patterns, enabled, startup>>

\* Load i settles; the analyze call that awaited it, if any, returns in the same turn
\* and analyzeTweetElement goes on from its await.
PageLoadSettle(i, outcome) ==
  LET lp == loadPatterns(patterns, outcome)
      call == loads[i]
      left == [Page EXCEPT !.loads = Remove(loads, i)]
  IN /\ patterns' = lp.patterns
     /\ IF call = NoCall
        THEN Leaves(left, "loadPatterns")
        ELSE IF analyzeThrows(lp.patterns, call.text, call.metadata)
        THEN Leaves([left EXCEPT !.history = Append(@, Call(call.text, call.metadata))],
                    "analyzeTweetElement")
        ELSE Leaves(Processed(left, call.id,
                              analyze(lp.patterns, recentTweets, stats, call.text,
                                      call.metadata),
                              Call(call.text, call.metadata)),
                    "analyzeTweetElement")
     /\ UNCHANGED <<enabled, startup>>

NextPage ==
  \/ \E value \in BOOLEAN : SettingsLoaded(value) /\ UNCHANGED <<globalStats, handlers>>
  \/ \E value \in BOOLEAN : SettingsChanged(value) /\ UNCHANGED <<globalStats, handlers>>
  \/ \E source \in ScanSources : Scan(source) /\ UNCHANGED <<globalStats, handlers>>
  \/ ResetStatsMessage /\ UNCHANGED <<globalStats, handlers>>
  \/ \E i \in DOMAIN loads : PageLoadSettle(i, "ok") /\ UNCHANGED <<globalStats, handlers>>

SpecPage == Init /\ [][NextPage]_vars

-----------------------------------------------------------------------------
(* The background worker: AI_DETECTED messages arrive while the handlers   *)
(* of earlier ones are waiting for chrome.storage.local, which holds       *)
(* Previous detections to start with.                                      *)

\* The detections history keeps the last 100.
MaxDetections == 100

\* globalStats after n detections numbered 1 to n, none lost; the newest comes first.
StoredStats(n) ==
  [totalTweetsAnalyzed |-> 0,
   totalAIDetected |-> n,
   detections |-> [k \in 1..Min(n, MaxDetections) |-> n + 1 - k]]

\* handleAIDetection between its two awaits: the detection is counted and put in
\* front of the history, which is cut to its first 100 entries.
Detected(stored, detection) ==
  LET detections == <<detection>> \o stored.detections
  IN [stored EXCEPT !.totalAIDetected = @ + 1,
                    !.detections = IF Len(detections) > MaxDetections
                                   THEN SubSeq(detections, 1, MaxDetections)
                                   ELSE detections]

\* The worker with Previous detections in its storage.
InitWorker ==
  /\ patterns = Null
  /\ stats = ZeroStats
  /\ recentTweets = <<>>
  /\ loads = <<NoCall>>
  /\ history = <<>>
  /\ last = [op |-> "new"]
  /\ enabled = TRUE
  /\ processedTweets = {}
  /\ highlighted = {}
  /\ sent = <<>>
  /\ startup = {"settings", "scan"}
  /\ analyzed = <<>>
  /\ globalStats = StoredStats(Previous)
  /\ handlers = <<>>

\* An AI_DETECTED message arrives: the listener calls handleAIDetection, which asks
\* the storage for globalStats and suspends, and answers the sender.
AIDetected ==
  /\ Len(handlers) < MaxMessages
  /\ handlers' = Append(handlers, [data |-> Previous + Len(handlers) + 1, pc |-> "get"])
  /\ UNCHANGED globalStats

\* The get of handler i resolves: the handler updates what it has read and asks the
\* storage to set it.
GetResolves(i) ==
  /\ handlers[i].pc = "get"
  /\ handlers' = [handlers EXCEPT ![i] = [data |-> @.data, pc |-> "set",
                                          globalStats |-> Detected(globalStats, @.data)]]
  /\ UNCHANGED globalStats

\* The set of handler i resolves: the storage holds what the handler wrote, and the
\* handler shows its count on the badge of the extension.
SetResolves(i) ==
  /\ handlers[i].pc = "set"
  /\ globalStats' = handlers[i].globalStats
  /\ handlers' = [handlers EXCEPT ![i] = [data |-> @.data, pc |-> "done",
                                          badge |-> @.globalStats.totalAIDetected]]

NextWorker ==
  \/ AIDetected /\ UNCHANGED <<patterns, stats, recentTweets, loads, history, last>>
                /\ UNCHANGED <<enabled, processedTweets, highlighted, sent, startup, analyzed>>
  \/ \E i \in DOMAIN handlers :
       /\ GetResolves(i)
       /\ UNCHANGED <<patterns, stats, recentTweets, loads, history, last>>
       /\ UNCHANGED <<enabled, processedTweets, highlighted, sent, startup, analyzed>>
  \/ \E i \in DOMAIN handlers :
       /\ SetResolves(i)
       /\ UNCHANGED <<patterns, stats, recentTweets, loads, history, last>>
       /\ UNCHANGED <<enabled, processedTweets, highlighted, sent, startup, analyzed>>

SpecWorker == InitWorker /\ [][NextWorker]_vars

-----------------------------------------------------------------------------
(* The scorer on its own: calculateAIScore applied to feature vectors that *)
(* differ in at most MaxKnobs features from the vector in which no rule    *)
(* fires or from the vector in which every rule fires.                     *)

\* The features the scorer reads.
Knobs ==
  {"aiWordCount", "aiPhraseMatches", "emDashCount", "colonCount", "semicolonCount",
   "quotationCount", "hasBulletPoints", "hasNumberedList", "isLongThread", "hasCitations",
   "hasLegalJargon", "hasMixedFormalEmoji", "hasMultipleSources", "hasBalancedCommentary",
   "hasConversationalHook", "hashtagCount", "mentionCount", "hasExcessiveEmojis",
   "hasGenericResponse", "hasCryptoSpam", "hasAdultContentPromo", "hasPromotionalContent",
   "linkCount", "hasSuspiciousLinks", "vocabularyDiversity", "formalityScore",
   "isNewAccount", "hasSuspiciousName", "hasAffiliateBadge", "hasEmojiUsername",
   "isVeryShortTweet", "isShallowComment", "isDuplicateContent"}

\* The feature vector of a 40-word post in which the rules of the features in on
\* fire and no other rule does.
Vector(on) ==
  [aiWordCount |-> IF "aiWordCount" \in on THEN 40 ELSE 0,
   totalWords |-> 40,
   aiPhraseMatches |-> IF "aiPhraseMatches" \in on THEN <<"as an AI", "let's dive deep">> ELSE <<>>,
   emDashCount |-> IF "emDashCount" \in on THEN 3 ELSE 0,
   colonCount |-> IF "colonCount" \in on THEN 2 ELSE 0,
   semicolonCount |-> IF "semicolonCount" \in on THEN 1 ELSE 0,
   quotationCount |-> IF "quotationCount" \in on THEN 4 ELSE 0,
   hasBulletPoints |-> "hasBulletPoints" \in on,
   hasNumberedList |-> "hasNumberedList" \in on,
   paragraphCount |-> 1,
   isLongThread |-> "isLongThread" \in on,
   hasCitations |-> "hasCitations" \in on,
   hasLegalJargon |-> "hasLegalJargon" \in on,
   hasMixedFormalEmoji |-> "hasMixedFormalEmoji" \in on,
   hasMultipleSources |-> "hasMultipleSources" \in on,
   hasBalancedCommentary |-> "hasBalancedCommentary" \in on,
   hasConversationalHook |-> "hasConversationalHook" \in on,
   hashtagCount |-> IF "hashtagCount" \in on THEN 4 ELSE 0,
   mentionCount |-> IF "mentionCount" \in on THEN 3 ELSE 0,
   allCapsWords |-> 0,
   emojiCount |-> 0,
   hasExcessiveEmojis |-> "hasExcessiveEmojis" \in on,
   hasGenericResponse |-> "hasGenericResponse" \in on,
   hasCryptoSpam |-> "hasCryptoSpam" \in on,
   hasAdultContentPromo |-> "hasAdultContentPromo" \in on,
   hasPromotionalContent |-> "hasPromotionalContent" \in on,
   linkCount |-> IF "linkCount" \in on THEN 2 ELSE 0,
   hasSuspiciousLinks |-> "hasSuspiciousLinks" \in on,
   avgSentenceLength |-> 10 * Scale,
   vocabularyDiversity |-> IF "vocabularyDiversity" \in on THEN Scale \div 2 ELSE Scale,
   formalityScore |-> IF "formalityScore" \in on THEN Scale ELSE Scale \div 2,
   isNewAccount |-> "isNewAccount" \in on,
   hasSuspiciousName |-> "hasSuspiciousName" \in on,
   hasAffiliateBadge |-> "hasAffiliateBadge" \in on,
   hasEmojiUsername |-> "hasEmojiUsername" \in on,
   isVeryShortTweet |-> "isVeryShortTweet" \in on,
   isShallowComment |-> "isShallowComment" \in on,
   isDuplicateContent |-> "isDuplicateContent" \in on]

\* The sets of at most MaxKnobs features.
FewKnobs ==
  LET Few[k \in 0..MaxKnobs] ==
        IF k = 0 THEN {{}} ELSE Few[k - 1] \cup {S \cup {x} : S \in Few[k - 1], x \in Knobs}
  IN Few[MaxKnobs]

FeatureVectors == {Vector(on) : on \in FewKnobs} \cup {Vector(Knobs \ off) : off \in FewKnobs}

\* calculateAIScore has been called with a feature vector.
InitScore ==
  /\ patterns = Null
  /\ stats = ZeroStats
  /\ recentTweets = <<>>
  /\ loads = <<NoCall>>
  /\ history = <<>>
  /\ \E features \in FeatureVectors :
       last = [op |-> "calculateAIScore", outcome |-> "called", features |-> features]
  /\ InitHost

\* calculateAIScore returns.
Score ==
  /\ last.op = "calculateAIScore"
  /\ last.outcome = "called"
  /\ last' = [op |-> "calculateAIScore", outcome |-> "returned", features |-> last.features,
              result |-> calculateAIScore(last.features)]
  /\ UNCHANGED <<patterns, stats, recentTweets, loads, history>>

NextScore == Score /\ UNCHANGED hostVars

SpecScore == InitScore /\ [][NextScore]_vars

-----------------------------------------------------------------------------
(* Properties.                                                             *)

\* The steps in which an analyze call settles, in which the constructor's load
\* settles, in which resetStats runs and in which getStats runs.
AnalyzeSettles == Len(history') = Len(history) + 1
ConstructorLoadSettles == Len(loads') < Len(loads) /\ ~AnalyzeSettles
ResetRuns == last'.op = "resetStats" /\ loads' = loads
GetStatsRuns == last'.op = "getStats" /\ loads' = loads

\* The call is analyzed on the generic path: its user name is no known bot's.
Generic(call) == call.metadata.username \notin {Grok}

\* C1: every score the scorer returns, and so every result analyze returns, has a
\* confidence in [0, 1] and at most 5 reasons.
C1_ScoreInRange ==
  (last.op \in {"calculateAIScore", "analyze"} /\ last.outcome = "returned") =>
    /\ last.result.confidence >= 0
    /\ last.result.confidence <= Scale
    /\ Len(last.result.reasons) <= 5

\* The scorer has returned for a vector whose total is above 1 and which gives more
\* than 5 reasons.
C1_Witness ==
  /\ last.op = "calculateAIScore"
  /\ last.outcome = "returned"
  /\ TotalScore(last.features) > Scale
  /\ Len(AllReasons(last.features)) > 5
  /\ last.result.confidence = Scale
  /\ Len(last.result.reasons) = 5

\* C2: when an author A analyzes a text T, then another author B analyzes T, then A
\* analyzes T again, B's analysis has isDuplicateContent = true and A's second
\* analysis has isDuplicateContent = false.
C2_OwnRepeatNotDuplicate ==
  [][(AnalyzeSettles /\ last'.outcome = "returned" /\ Generic(last'.call)) =>
       LET h == history'
           n == Len(history')
           ByOther(a, b) ==
             Generic(a) /\ a.text = b.text /\ a.metadata.username # b.metadata.username
       IN /\ (n >= 2 /\ ByOther(h[n - 1], h[n]))
               => last'.result.features.isDuplicateContent
          /\ (n >= 3 /\ ByOther(h[n - 1], h[n]) /\ h[n - 2] = h[n])
               => ~last'.result.features.isDuplicateContent]_vars

\* C3: an analyze call whose user name normalizes to "grok" returns isAI = true,
\* confidence 1.0 and the single reason "Official AI bot account", counts one
\* analysis and one detection of confidence 1.0, and leaves the tracker as it was.
C3_GrokShortCircuit ==
  [][(AnalyzeSettles /\ last'.call.metadata.username = Grok) =>
       /\ last'.outcome = "returned"
       /\ last'.result.isAI
       /\ last'.result.confidence = Scale
       /\ last'.result.reasons = <<"Official AI bot account">>
       /\ stats' = [tweetsAnalyzed |-> stats.tweetsAnalyzed + 1,
                    aiDetected |-> stats.aiDetected + 1,
                    confidenceSum |-> stats.confidenceSum + Scale]
       /\ recentTweets' = recentTweets]_vars

\* A call by "@Grok " has returned after other calls filled the tracker.
C3_Witness ==
  /\ last.op = "analyze"
  /\ last.call.metadata.username = Grok
  /\ NormalizeUsername(Grok) = "grok"
  /\ last.result.reasons = <<"Official AI bot account">>
  /\ recentTweets # <<>>
  /\ stats.tweetsAnalyzed >= 2

\* C4: after every analyze call the tracker holds at most 500 entries.
C4_TrackerBounded == Len(recentTweets) <= 500

\* More than 500 distinct posts have been analyzed and the tracker was cut back.
C4_Witness ==
  /\ Len(history) > 500
  /\ Cardinality({Normalized(history[i].text) : i \in DOMAIN history}) > 500
  /\ Len(recentTweets) < 500

\* C5: an insertion that takes the tracker over 500 entries removes exactly the 100
\* entries inserted earliest and keeps every other entry, whatever their keys are.
C5_EvictsExactlyOldest ==
  [][(AnalyzeSettles /\ Generic(last'.call)) =>
       LET added == MapSet(recentTweets, Normalized(last'.call.text),
                           last'.call.metadata.username)
       IN Len(added) > 500 => recentTweets' = SubSeq(added, 101, Len(added))]_vars

\* C6: an analyze call that returns adds 1 to tweetsAnalyzed; it adds 1 to aiDetected
\* and the returned confidence to confidenceSum when the returned isAI is true, and
\* leaves both as they were when it is false.
C6_StatsCount ==
  [][(AnalyzeSettles /\ last'.outcome = "returned") =>
       /\ stats'.tweetsAnalyzed = stats.tweetsAnalyzed + 1
       /\ IF last'.result.isAI
          THEN /\ stats'.aiDetected = stats.aiDetected + 1
               /\ stats'.confidenceSum = stats.confidenceSum + last'.result.confidence
          ELSE /\ stats'.aiDetected = stats.aiDetected
               /\ stats'.confidenceSum = stats.confidenceSum]_vars

\* A known-bot call was counted as a detection and a later call that was not flagged
\* was counted as an analysis only.
C6_Witness ==
  /\ last.op = "analyze"
  /\ ~last.result.isAI
  /\ \E i \in DOMAIN history : ~Generic(history[i])
  /\ stats.tweetsAnalyzed = 2
  /\ stats.aiDetected = 1
  /\ stats.confidenceSum = Scale

\* C7: resetStats sets the three counters to 0 and leaves the tracker and the
\* configuration as they were, so that the duplicate check answers as before.
C7_ResetFrame ==
  [][ResetRuns =>
       /\ stats' = [tweetsAnalyzed |-> 0, aiDetected |-> 0, confidenceSum |-> 0]
       /\ recentTweets' = recentTweets
       /\ patterns' = patterns
       /\ \A call \in Calls :
            checkDuplicateContent(recentTweets', call.text, call.metadata.username)
              = checkDuplicateContent(recentTweets, call.text, call.metadata.username)]_vars

\* A post recorded before a reset is detected as a duplicate after it: two calls have
\* returned, the counters count one, and the second is flagged duplicate.
C7_Witness ==
  /\ last.op = "analyze"
  /\ Generic(last.call)
  /\ last.result.features.isDuplicateContent
  /\ Len(history) = 2
  /\ stats.tweetsAnalyzed = 1

\* No scoring rule fires for the feature vector.
NoRuleFires(features) == TotalScore(features) = 0 /\ AllReasons(features) = <<>>

\* C8: on the generic path the returned isAI is true exactly when the returned
\* reasons are not empty or the returned confidence is above 0; a post for which no
\* scoring rule fires is returned with isAI = false and is not counted in aiDetected.
C8_IsAIIffSignal ==
  [][(AnalyzeSettles /\ last'.outcome = "returned" /\ Generic(last'.call)) =>
       /\ last'.result.isAI
            <=> (Len(last'.result.reasons) > 0 \/ last'.result.confidence > 0)
       /\ NoRuleFires(last'.result.features)
            => (~last'.result.isAI /\ stats'.aiDetected = stats.aiDetected)]_vars

\* A post flagged on its confidence alone (no reason) has been counted, and the post
\* analyzed last, for which no rule fires, has not.
C8_Witness ==
  /\ last.op = "analyze"
  /\ Generic(last.call)
  /\ NoRuleFires(last.result.features)
  /\ ~last.result.isAI
  /\ stats.tweetsAnalyzed = 2
  /\ stats.aiDetected = 1
  /\ stats.confidenceSum > 0
  /\ stats.confidenceSum < Scale \div 10

\* aiDetected <= tweetsAnalyzed and confidenceSum <= aiDetected, and what getStats
\* derives from them: both ratios in [0, 1], each 0 when its denominator is 0.
StatsInRange ==
  /\ stats.aiDetected >= 0
  /\ stats.aiDetected <= stats.tweetsAnalyzed
  /\ stats.confidenceSum >= 0
  /\ stats.confidenceSum <= stats.aiDetected * Scale
  /\ getStats(stats).avgConfidence >= 0
  /\ getStats(stats).avgConfidence <= Scale
  /\ getStats(stats).detectionRate >= 0
  /\ getStats(stats).detectionRate <= Scale
  /\ stats.aiDetected = 0 => getStats(stats).avgConfidence = 0
  /\ stats.tweetsAnalyzed = 0 => getStats(stats).detectionRate = 0
  /\ stats.aiDetected > 0
       => getStats(stats).avgConfidence = stats.confidenceSum \div stats.aiDetected
  /\ stats.tweetsAnalyzed > 0
       => getStats(stats).detectionRate = (stats.aiDetected * Scale) \div stats.tweetsAnalyzed

\* C9: in every reachable state aiDetected <= tweetsAnalyzed and confidenceSum <=
\* aiDetected, so the ratios getStats returns are in [0, 1] and are 0 when their
\* denominator is 0; getStats returns them and changes no state.
C9_StatsInRange ==
  /\ StatsInRange
  /\ [][/\ StatsInRange'
        /\ GetStatsRuns =>
             /\ last'.result = getStats(stats)
             /\ UNCHANGED <<patterns, stats, recentTweets, loads, history>>]_vars

\* getStats has returned ratios strictly between 0 and 1 while an analyze call is
\* suspended on its load.
C9_Witness ==
  /\ last.op = "getStats"
  /\ Pending > 0
  /\ last.result.avgConfidence > 0
  /\ last.result.avgConfidence < Scale
  /\ last.result.detectionRate > 0
  /\ last.result.detectionRate < Scale

\* C10: a load that fails installs the default configuration and does not reject; no
\* analyze call rejects, and the call that awaited a failed load returns what the
\* analysis against the default configuration gives.
C10_LoadFailureRecovered ==
  [][/\ (ConstructorLoadSettles /\ last'.outcome = "failed")
          => (~last'.rejected /\ patterns' = getDefaultPatterns)
     /\ AnalyzeSettles => last'.outcome = "returned"
     /\ (AnalyzeSettles /\ last'.awaited = "failed")
          => /\ patterns' = getDefaultPatterns
             /\ LET a == analyze(getDefaultPatterns, recentTweets, stats,
                                 last'.call.text, last'.call.metadata)
                IN /\ last'.result = a.result
                   /\ stats' = a.stats
                   /\ recentTweets' = a.recentTweets]_vars

\* The call that awaited a failed load has returned the result that the default
\* configuration gives for its post, which the fetched configuration does not.
C10_Witness ==
  /\ last.op = "analyze"
  /\ last.awaited = "failed"
  /\ last.outcome = "returned"
  /\ patterns = getDefaultPatterns
  /\ last.call.text = T_Robust
  /\ Generic(last.call)
  /\ last.result.features.aiWordCount = 0
  /\ FeaturesOf[<<2, T_Robust>>].aiWordCount = 1

\* C11: the configuration is loaded once: never more than one load has been issued
\* (the constructor's), and a configuration that is set is never replaced.
C11_LoadedOnce ==
  [][/\ Len(loads') <= 1
     /\ patterns # Null => patterns' = patterns]_vars

\* The call is suspended on its load.
Suspended(call) == \E i \in DOMAIN loads : loads[i] = call

\* C12: an analyze call that overlaps the initial load returns in the end, given that
\* every fetch settles; no such call fails; and what it returns is the analysis against
\* the configuration that is set when it resumes, never against an unset one.
C12_OverlappingCallsReturn ==
  /\ \A call \in Calls :
       Suspended(call) ~> (last.op = "analyze" /\ last.call = call /\ last.outcome = "returned")
  /\ [][(AnalyzeSettles /\ last'.awaited # "none") =>
          /\ last'.outcome = "returned"
          /\ patterns' # Null
          /\ last'.result =
               analyze(patterns', recentTweets, stats, last'.call.text, last'.call.metadata).result]_vars

\* Two calls were made before any load had settled, and both have returned while the
\* constructor's load is still in flight.
C12_Witness ==
  /\ last.op = "analyze"
  /\ last.outcome = "returned"
  /\ last.awaited # "none"
  /\ Len(history) = 2
  /\ loads = <<NoCall>>
  /\ Generic(last.call)

\* The features of extractFeatures that are numbers.
NumericFeatures ==
  {"aiWordCount", "totalWords", "emDashCount", "colonCount", "semicolonCount",
   "quotationCount", "paragraphCount", "hashtagCount", "mentionCount", "allCapsWords",
   "emojiCount", "linkCount", "avgSentenceLength", "vocabularyDiversity", "formalityScore"}

\* Every number of the vector is 0, every flag is false and no phrase matched.
AllZeroOrFalse(features) ==
  \A k \in DOMAIN features :
    IF k \in NumericFeatures THEN features[k] = 0
    ELSE IF k = "aiPhraseMatches" THEN features[k] = <<>>
    ELSE features[k] = FALSE

\* C13: the analysis of the empty text without metadata on an empty tracker returns a
\* feature vector of zeros and falses, and no scoring rule fires on it.
C13_EmptyTextAllZero ==
  (/\ last.op = "analyze"
   /\ last.outcome = "returned"
   /\ last.call = Call(T_Empty, NoMetadata)
   /\ Len(history) = 1)
    => /\ AllZeroOrFalse(last.result.features)
       /\ last.result.reasons = <<>>
       /\ last.result.confidence = 0

\* The configurations without bad entries.
WellFormed == {getDefaultPatterns, FetchedPatterns}

\* C14: under a well-formed configuration no analyze call throws, whatever its text
\* is, null included: it returns a result, counts one analysis and inserts at most one
\* entry into the tracker.
C14_NoTextThrows ==
  [][(AnalyzeSettles /\ patterns \in WellFormed) =>
       /\ last'.outcome = "returned"
       /\ stats'.tweetsAnalyzed = stats.tweetsAnalyzed + 1
       /\ Len(recentTweets') <= Len(recentTweets) + 1]_vars

\* C15: under a loaded document with bad or missing entries analyze returns for every
\* text that is a string, and the patterns of a list that do compile are still
\* matched: the post that quotes "as an AI" and a bit.ly link gets both matches.
C15_BadEntriesSkipped ==
  [][(AnalyzeSettles /\ patterns \in {PartialPatterns, BadWordPatterns}
        /\ last'.call.text # NullText) =>
       /\ last'.outcome = "returned"
       /\ last'.call.text = T_AsAnAI =>
            /\ last'.result.features.aiPhraseMatches = <<"as an AI">>
            /\ last'.result.features.hasSuspiciousLinks]_vars

\* C16: a tweet is highlighted only when the confidence of its result reaches the
\* confidenceThreshold setting.
C16_HighlightAtThreshold ==
  (last.op = "analyzeTweetElement" /\ last.highlighted)
    => last.result.confidence >= settings.confidenceThreshold

\* The last operation is an analysis that returned from the generic path.
GenericResult ==
  /\ last.op \in {"analyze", "analyzeTweetElement"}
  /\ last.outcome = "returned"
  /\ ~IsKnownBotAccount(last.call.metadata)

\* C17: a post of 20 words with three or more indicator words, for which no rule other
\* than the one of the indicator words fires, gets a confidence of 0.6 or more.
C17_VocabularyPostDetected ==
  (/\ GenericResult
   /\ last.result.features.totalWords = 20
   /\ last.result.features.aiWordCount >= 3
   /\ NoRuleFires([last.result.features EXCEPT !.aiWordCount = 0]))
    => last.result.confidence >= (6 * Scale) \div 10

\* The features each weighted category of the scorer reads, and the features of the
\* flat additions.
CategoryFeatures ==
  [aiWord |-> {"aiWordCount"},
   aiPhrase |-> {"aiPhraseMatches"},
   punctuation |-> {"emDashCount", "colonCount", "semicolonCount", "quotationCount"},
   structure |-> {"hasBulletPoints", "hasNumberedList", "isLongThread", "hasCitations",
                  "hasLegalJargon", "hasMixedFormalEmoji", "hasMultipleSources",
                  "hasBalancedCommentary", "hasConversationalHook"},
   spam |-> {"hashtagCount", "mentionCount", "hasExcessiveEmojis", "hasGenericResponse"},
   botSpam |-> {"hasCryptoSpam", "hasAdultContentPromo", "hasPromotionalContent",
                "linkCount", "hasSuspiciousLinks"},
   stylometric |-> {"vocabularyDiversity", "formalityScore"},
   metadata |-> {"isNewAccount", "hasSuspiciousName", "hasAffiliateBadge", "hasEmojiUsername"}]
FlatFeatures == {"isVeryShortTweet", "isShallowComment", "isDuplicateContent"}

\* The feature vector with the named features set to the values at which their rules
\* do not fire.
Off(features, names) ==
  [k \in DOMAIN features |-> IF k \in names THEN Vector({})[k] ELSE features[k]]

\* What the named features add to the total.
Contribution(features, names) == TotalScore(features) - TotalScore(Off(features, names))

\* C18: no weighted category adds more than its weight to the total; the three flat
\* additions add 0.6, 0.7 and 0.8 unscaled; the total is the sum of these parts and the
\* confidence is min(total, 1); so a shallow comment, such as the one-word post
\* "Nice!", has a confidence of at least 0.7 and a duplicate one of at least 0.8.
C18_CategoriesCapped ==
  (last.op = "calculateAIScore" /\ last.outcome = "returned") =>
    LET f == last.features
        Part(c) == Contribution(f, CategoryFeatures[c])
    IN /\ \A c \in DOMAIN weights :
            Part(c) >= 0 /\ 1000 * Part(c) <= weights[c] * Scale
       /\ weights = [aiWord |-> 250, aiPhrase |-> 300, punctuation |-> 150, structure |-> 120,
                     spam |-> 150, botSpam |-> 350, stylometric |-> 180, metadata |-> 100]
       /\ Contribution(f, {"isVeryShortTweet"}) = If(f.isVeryShortTweet, (6 * Scale) \div 10)
       /\ Contribution(f, {"isShallowComment"}) = If(f.isShallowComment, (7 * Scale) \div 10)
       /\ Contribution(f, {"isDuplicateContent"}) = If(f.isDuplicateContent, (8 * Scale) \div 10)
       /\ TotalScore(f) =
            Part("aiWord") + Part("aiPhrase") + Part("punctuation") + Part("structure")
              + Part("spam") + Part("botSpam") + Part("stylometric") + Part("metadata")
              + Contribution(f, FlatFeatures)
       /\ last.result.confidence = Min(TotalScore(f), Scale)
       /\ f.isShallowComment => last.result.confidence >= (7 * Scale) \div 10
       /\ f.isDuplicateContent => last.result.confidence >= (8 * Scale) \div 10
       /\ countWords(T_Nice) = 1 /\ length(T_Nice) < 15
       /\ FeaturesOf[<<2, T_Nice>>].isShallowComment
       /\ calculateAIScore(Features(FetchedPatterns, <<>>, T_Nice, NoMetadata)).confidence
            >= (7 * Scale) \div 10

\* The scorer has returned for a vector whose structure sub-score, 0.7 + 0.8, is over 1:
\* the category adds its weight 0.12 and nothing else adds anything.
C18_Witness ==
  /\ last.op = "calculateAIScore"
  /\ last.outcome = "returned"
  /\ last.features = Vector({"hasCitations", "hasMultipleSources"})
  /\ last.result.confidence = (12 * Scale) \div 100

\* The reasons of the three flat additions.
FlatReasons ==
  [isVeryShortTweet |-> "Very short low-effort tweet",
   isShallowComment |-> "Shallow engagement-bait comment",
   isDuplicateContent |-> "Duplicate/copied content detected"]

\* C19: the reasons returned are ordered by impact and the reasons kept are those of
\* the highest impact.  A flat addition adds more than any feature of a weighted
\* category can, so the reason of a flat addition that fired is always kept, and the
\* reason of the duplicate rule, the largest addition, comes first.
C19_HighestImpactKept ==
  (last.op = "calculateAIScore" /\ last.outcome = "returned") =>
    /\ \A k \in DOMAIN FlatReasons :
         last.features[k] => FlatReasons[k] \in Range(last.result.reasons)
    /\ last.features.isDuplicateContent => last.result.reasons[1] = FlatReasons.isDuplicateContent

\* The word sets of the normalized probe and of a cached text overlap by more than
\* 0.60 of their union.
JaccardOver60(probe, cached) ==
  LET P == Range(split(probe))
      C == Range(split(cached))
  IN 5 * Cardinality(P \cap C) > 3 * Cardinality(P \cup C)

\* Both texts have at most 8 words and at least 4 of the probe's words occur in the
\* cached text, or else at least half of the probe's adjacent word pairs occur
\* verbatim in the cached text.
SameStructure(probe, cached) ==
  LET p == split(probe)
      c == split(cached)
  IN IF Len(p) <= 8 /\ Len(c) <= 8
     THEN Cardinality({i \in DOMAIN p : \E j \in DOMAIN c : p[i] = c[j]}) >= 4
     ELSE 2 * Cardinality({i \in 1..(Len(p) - 1) : includes(cached, p[i] \o " " \o p[i + 1])})
            >= Len(p) - 1

\* The word counts of the two texts differ by at most 3.
SimilarLength(probe, cached) ==
  LET d == Len(split(probe)) - Len(split(cached)) IN d <= 3 /\ d >= -3

\* An analyze call returns from the generic path.
GenericReturn ==
  /\ AnalyzeSettles
  /\ last'.outcome = "returned"
  /\ ~IsKnownBotAccount(last'.call.metadata)

\* C20 as stated: a post is flagged as duplicate exactly when the tracker holds an
\* entry of another author that is equal to it, or has a word overlap above 0.60 with
\* it, or has the same structure, whatever the lengths of the two texts.
C20_DuplicateIffAnyLength ==
  [][GenericReturn =>
       LET probe == Normalized(last'.call.text)
           author == Field(last'.call.metadata, "username")
       IN last'.result.features.isDuplicateContent
            <=> \E i \in DOMAIN recentTweets :
                  /\ recentTweets[i].author # author
                  /\ \/ recentTweets[i].key = probe
                     \/ JaccardOver60(probe, recentTweets[i].key)
                     \/ SameStructure(probe, recentTweets[i].key)]_vars

\* C20, amended: the same, with the same structure counting only between texts whose
\* word counts differ by at most 3.
C20_DuplicateIff ==
  [][GenericReturn =>
       LET probe == Normalized(last'.call.text)
           author == Field(last'.call.metadata, "username")
       IN last'.result.features.isDuplicateContent
            <=> \E i \in DOMAIN recentTweets :
                  /\ recentTweets[i].author # author
                  /\ \/ recentTweets[i].key = probe
                     \/ JaccardOver60(probe, recentTweets[i].key)
                     \/ /\ SimilarLength(probe, recentTweets[i].key)
                        /\ SameStructure(probe, recentTweets[i].key)]_vars

\* alice's post of 4 words has been analyzed after bob's post of 8 words that begins
\* with them, and is not flagged: the word counts differ by 4.
C20_Witness ==
  /\ last.op = "analyze"
  /\ last.outcome = "returned"
  /\ last.call = Call(T_Dogs4, [username |-> "alice"])
  /\ Len(history) = 2
  /\ history[1] = Call(T_Dogs8, [username |-> "bob"])
  /\ SameStructure(Normalized(T_Dogs4), Normalized(T_Dogs8))
  /\ ~last.result.features.isDuplicateContent

-----------------------------------------------------------------------------
(* Own posts, inserts and atomicity.                                       *)

\* C21: an analysis on the generic path whose author is the stored author of every
\* entry the tracker holds, an absent user name being the author of the entries
\* recorded without one, has isDuplicateContent = false whatever its text is; so has
\* every analysis on an empty tracker, the check running before the post is recorded.
C21_OwnEntriesNeverFlag ==
  [][GenericReturn =>
       LET author == Field(last'.call.metadata, "username")
       IN (\A i \in DOMAIN recentTweets : recentTweets[i].author = author)
            => ~last'.result.features.isDuplicateContent]_vars

\* A post without a user name has been analyzed after another post without a user
\* name that has the same normalized text, which the tracker held, and is not flagged.
C21_Witness ==
  /\ last.op = "analyze"
  /\ last.outcome = "returned"
  /\ last.call = Call(T_Blank, NoMetadata)
  /\ Len(history) = 2
  /\ history[1] = Call(T_Empty, NoMetadata)
  /\ Normalized(T_Blank) = Normalized(T_Empty)
  /\ Len(recentTweets) = 1
  /\ recentTweets[1] = [key |-> Normalized(T_Blank), author |-> Undefined]
  /\ ~last.result.features.isDuplicateContent

\* The tracker holds the post of a call under its normalized text with its author.
Recorded(cache, call) ==
  \E i \in DOMAIN cache :
    cache[i] = [key |-> Normalized(call.text), author |-> Field(call.metadata, "username")]

\* C22 as stated: after every analyze call that returns, on the known-bot path or on
\* the generic one, the tracker maps the normalized text of the post to its author.
C22_EveryCallInserts ==
  [][(AnalyzeSettles /\ last'.outcome = "returned") => Recorded(recentTweets', last'.call)]_vars

\* C22, amended: an analyze call that returns from the generic path has made one
\* insert, after which the tracker maps the normalized text of the post to its author,
\* has at most one entry more and holds no other entry it did not hold before; a call
\* that returns from the known-bot path has left the tracker as it was.
C22_GenericCallInserts ==
  [][(AnalyzeSettles /\ last'.outcome = "returned") =>
       IF IsKnownBotAccount(last'.call.metadata)
       THEN recentTweets' = recentTweets
       ELSE /\ Recorded(recentTweets', last'.call)
            /\ Len(recentTweets') <= Len(recentTweets) + 1
            /\ \A j \in DOMAIN recentTweets' :
                 recentTweets'[j].key # Normalized(last'.call.text)
                   => \E i \in DOMAIN recentTweets : recentTweets[i] = recentTweets'[j]]_vars

\* A known-bot call has returned for a post the tracker does not hold, after a
\* generic call whose post it does hold.
C22_Witness ==
  /\ last.op = "analyze"
  /\ last.outcome = "returned"
  /\ IsKnownBotAccount(last.call.metadata)
  /\ Len(history) >= 2
  /\ Recorded(recentTweets, history[1])
  /\ \A i \in DOMAIN recentTweets : recentTweets[i].key # Normalized(last.call.text)

\* The result of an analysis carries the duplicate flag; a known-bot result has none.
Flagged(result) ==
  "isDuplicateContent" \in DOMAIN result.features /\ result.features.isDuplicateContent

\* Two calls analyze the same text for two different authors.
SameTextTwoAuthors(a, b) ==
  a.text = b.text /\ Field(a.metadata, "username") # Field(b.metadata, "username")

\* C23 as stated: of two overlapping calls, both suspended at the load, that analyze
\* the same text for two different authors, exactly one is flagged as duplicate.
C23_ExactlyOneFlagged ==
  [][(/\ AnalyzeSettles /\ last'.outcome = "returned" /\ last'.awaited # "none"
      /\ last.op = "analyze" /\ last.outcome = "returned" /\ last.awaited # "none"
      /\ SameTextTwoAuthors(last.call, last'.call))
       => (Flagged(last.result) # Flagged(last'.result))]_vars

\* C23, amended: the step in which an analyze call returns checks the tracker as the
\* step finds it, records the post and counts the analysis, so that no increment is
\* lost; and when the first two calls to return on a detector analyze the same text
\* for two different authors, neither a known bot, the second of them suspended at
\* the load, the second is flagged and the first is not.
C23_CheckRecordCountInOneStep ==
  [][(AnalyzeSettles /\ last'.outcome = "returned") =>
       LET call == last'.call
           h == history'
       IN /\ stats' = CountAnalysis(stats, last'.result.isAI, last'.result.confidence)
          /\ ~IsKnownBotAccount(call.metadata) =>
               /\ Flagged(last'.result)
                    <=> checkDuplicateContent(recentTweets, call.text,
                                              Field(call.metadata, "username"))
               /\ Recorded(recentTweets', call)
          /\ (/\ Len(h) = 2 /\ last'.awaited # "none" /\ SameTextTwoAuthors(h[1], h[2])
              /\ ~IsKnownBotAccount(h[1].metadata) /\ ~IsKnownBotAccount(h[2].metadata)) =>
               /\ Flagged(last'.result)
               /\ last.op = "analyze" => ~Flagged(last.result)]_vars

\* Two calls have analyzed the same text for alice and for bob, the second after
\* waiting for its load; it is flagged, and both analyses are counted.
C23_Witness ==
  /\ last.op = "analyze"
  /\ last.outcome = "returned"
  /\ last.awaited # "none"
  /\ Len(history) = 2
  /\ SameTextTwoAuthors(history[1], history[2])
  /\ ~IsKnownBotAccount(history[1].metadata)
  /\ ~IsKnownBotAccount(history[2].metadata)
  /\ Flagged(last.result)
  /\ stats.tweetsAnalyzed = 2
  /\ Len(recentTweets) = 1

-----------------------------------------------------------------------------
(* The known-bot test and the account age.                                 *)

\* The normalized user name of a call contains one of the known handles.
ContainsHandle(metadata) ==
  /\ Truthy(metadata, "username")
  /\ \E n \in DOMAIN knownAIBots :
       includes(NormalizeUsername(metadata.username), knownAIBots[n])

\* C24: an analyze call returns from the known-bot short-circuit exactly when its
\* normalized user name contains one of the ten known handles; with every other user
\* name, a part of a handle or a name that normalizes to the empty string among them,
\* it returns from the generic pipeline.
C24_ShortCircuitIffContainsHandle ==
  [][(AnalyzeSettles /\ last'.outcome = "returned") =>
       ("isKnownAIBot" \in DOMAIN last'.result.features
          <=> ContainsHandle(last'.call.metadata))]_vars

\* C25: the isNewAccount feature of an analysis is true exactly when an account age
\* is provided and is less than 90 days, the age 0 included, and false when none is
\* provided; when it is true the reason "New account" is given and 0.4 is added to
\* the metadata sub-score.
C25_NewAccountIffUnder90 ==
  [][GenericReturn =>
       LET metadata == last'.call.metadata
           features == last'.result.features
       IN /\ features.isNewAccount
               <=> ("accountAge" \in DOMAIN metadata /\ metadata.accountAge < 90)
          /\ features.isNewAccount =>
               /\ \E n \in DOMAIN AllReasons(features) : AllReasons(features)[n] = "New account"
               /\ Contribution(features, {"isNewAccount"}) > 0]_vars

-----------------------------------------------------------------------------
(* The content script and the background worker.                           *)

\* C26: while settings.enabled is false no handler of the content script, whichever
\* event it serves, hands a tweet to analyze, and none applies a highlight or a
\* badge, the handlers that go on from an analysis in flight included.
C26_DisabledStartsAndShowsNothing ==
  [][(~enabled /\ ~enabled') => (Started' = Started /\ highlighted' \subseteq highlighted)]_vars

\* C27: between two clears of processedTweets no tweet id is passed to
\* detector.analyze more than once.
C27_AnalyzedOncePerTweet ==
  \A i, j \in DOMAIN analyzed : i # j => analyzed[i] # analyzed[j]

\* C28: when the handlers of the N AI_DETECTED messages received have all finished,
\* the stored totalAIDetected is the previous total plus N, and the stored history
\* holds the min(previous + N, 100) most recent detections, never more than 100.
C28_EveryDetectionStored ==
  /\ Len(globalStats.detections) <= MaxDetections
  /\ (\A i \in DOMAIN handlers : handlers[i].pc = "done") =>
       LET total == Previous + Len(handlers)
           kept == Min(total, MaxDetections)
       IN /\ globalStats.totalAIDetected = total
          /\ Len(globalStats.detections) = kept
          /\ Range(globalStats.detections) = (total - kept + 1)..total

====
